---- MODULE Spec2Model ----
(***************************************************************************)
(* The debate session of backend/app.py as a state machine: the session    *)
(* state set up by entrypoint, the bootstrap from the first final user     *)
(* utterance, the DebateAgent tools (hot takes, next speaker) and the      *)
(* background _send_rpc tasks they create.                                 *)
(*                                                                         *)
(* Texts of hot takes are the numbers 1..NumTakes (exact string match is   *)
(* equality).  Names are sequences of one-character strings, so that       *)
(* str.lower() is computed character by character.                         *)
(***************************************************************************)
EXTENDS Integers, Sequences, FiniteSets, TLC

VARIABLES
    hot_takes,          \* session.hot_takes
    research_results,   \* session.research_results
    researching_agents, \* session.researching_agents
    history,            \* session.history.items
    personas,           \* the roster bound to the DebateAgent instances
    active,             \* personas whose DebateAgent is session.current_agent
    first,              \* DebateAgent.first of the current instance
    instructions,       \* Agent.instructions of each persona's instance
    enter_pc,           \* position of the current instance's on_enter
    decisions,          \* forced give_turn_to_next_speaker replies in flight
    prompt_tasks,       \* _prompt_user tasks created and not yet run
    playing,            \* how many of them still await wait_for_playout()
    chat_ctx,           \* what update_chat_ctx last gave the current instance
    session_started,    \* whether entrypoint called session.start
    first_done,         \* the asyncio.Event first_done of entrypoint
    start_task,         \* the _start_with_topic call or task of entrypoint
    rpc_tasks,          \* _send_rpc tasks created and not yet finished
    attempts,           \* the do_search tasks of research_agent
    research,           \* the _run_research task and the research_agent it drives
    room,               \* ctx.room: its remote participants, its data channel
    tool_result         \* what the last tool call returned or raised

vars == <<hot_takes, research_results, researching_agents, history, personas,
          active, first, instructions, enter_pc, decisions, prompt_tasks,
          playing, chat_ctx, session_started, first_done, start_task, rpc_tasks,
          attempts, research, room, tool_result>>

shared == <<hot_takes, research_results, researching_agents>>
turn == <<personas, active, first, enter_pc, decisions, prompt_tasks, playing, chat_ctx>>
boot == <<session_started, first_done, start_task>>
race == <<attempts, research>>

----------------------------------------------------------------------------
\* Bounds of the model.

NumTakes == 5
MaxHistory == 2
MaxPrompts == 1
MaxStore == 3
MaxPending == 3

\* Program constants.

MAX_HOT_TAKES == 4
RPC_ATTEMPTS == 3
NUM_ATTEMPTS == 3

Takes == 1..NumTakes

\* The text the hot-take tools are called with where the whole session runs.
SessionTakes == {1}

----------------------------------------------------------------------------
\* Names and str.lower().

LowerTable ==
    [c \in {"A", "B", "D", "E", "F", "H", "I", "L", "M", "N", "O", "R", "S", "U", "V",
            "W"} |->
        CASE c = "A" -> "a" [] c = "B" -> "b" [] c = "D" -> "d"
          [] c = "E" -> "e" [] c = "F" -> "f" [] c = "H" -> "h"
          [] c = "I" -> "i" [] c = "L" -> "l" [] c = "M" -> "m"
          [] c = "N" -> "n" [] c = "O" -> "o" [] c = "R" -> "r"
          [] c = "S" -> "s" [] c = "U" -> "u" [] c = "V" -> "v"
          [] c = "W" -> "w"]

Lower(s) ==
    [i \in DOMAIN s |-> IF s[i] \in DOMAIN LowerTable THEN LowerTable[s[i]] ELSE s[i]]

UserName == <<"u", "s", "e", "r">>
AssistantLabel == <<"a", "s", "s", "i", "s", "t", "a", "n", "t">>

Roster ==
    << [id |-> 0, name |-> <<"R", "a", "v", "e", "n">>, gender |-> "female"],
       [id |-> 1, name |-> <<"L", "u", "m", "i">>, gender |-> "female"] >>

PersonaIds == {Roster[i].id : i \in DOMAIN Roster}

PersonaOf(id) == CHOOSE p \in {Roster[i] : i \in DOMAIN Roster} : p.id = id

RosterNames == {Roster[i].name : i \in DOMAIN Roster}

\* The values the language model may name as the next speaker.
SpeakerInputs ==
    { <<"R", "a", "v", "e", "n">>, <<"r", "a", "v", "e", "n">>,
      <<"R", "A", "V", "E", "N">>, <<"L", "u", "m", "i">>,
      <<"l", "U", "m", "I">>, <<"u", "s", "e", "r">>, <<"U", "s", "e", "r">>,
      <<"U", "S", "E", "R">>, <<"R", "a", "v", "e">>,
      <<"R", "a", "v", "e", "n", "s">>, <<"L", "u">>, <<"B", "o", "b">>, <<>> }

----------------------------------------------------------------------------
\* Sequences as Python lists.

Contains(seq, x) == \E i \in DOMAIN seq : seq[i] = x

\* list.index(x): the first position holding x.
IndexOf(seq, x) == CHOOSE i \in DOMAIN seq : seq[i] = x /\ \A j \in 1..(i - 1) : seq[j] # x

\* list.remove(x): drops the first occurrence of x.
RemoveFirst(seq, x) ==
    LET i == IndexOf(seq, x)
    IN  SubSeq(seq, 1, i - 1) \o SubSeq(seq, i + 1, Len(seq))

----------------------------------------------------------------------------
\* Instructions of a DebateAgent.

HotTakesToPrompt(takes) ==
    IF takes = <<>>
    THEN [none_yet |-> TRUE, lines |-> <<>>]
    ELSE [none_yet |-> FALSE, lines |-> [i \in DOMAIN takes |-> <<"- ", takes[i]>>]]

NoFindings == [present |-> FALSE]

\* Instructions that list the personas that are away on research too.
BuildInstructionsEverybody(id, all_personas, takes, researching, results) ==
    LET me == PersonaOf(id)
        Other(p) == p.name # me.name
        Names[i \in 0..Len(all_personas)] ==
            IF i = 0 THEN <<>>
            ELSE IF Other(all_personas[i])
                 THEN Append(Names[i - 1], all_personas[i].name)
                 ELSE Names[i - 1]
    IN  [ built |-> TRUE,
          persona_name |-> me.name,
          other_personas |-> Append(Names[Len(all_personas)], UserName),
          hot_takes |-> HotTakesToPrompt(takes),
          findings |-> IF id \in DOMAIN results
                       THEN [present |-> TRUE, take |-> results[id].take,
                             explanation |-> results[id].explanation]
                       ELSE NoFindings ]

\* Instructions that never show the findings of the persona.
BuildInstructionsNoFindings(id, all_personas, takes, researching, results) ==
    LET me == PersonaOf(id)
        Other(p) == p.name # me.name /\ p.id \notin researching
        Names[i \in 0..Len(all_personas)] ==
            IF i = 0 THEN <<>>
            ELSE IF Other(all_personas[i])
                 THEN Append(Names[i - 1], all_personas[i].name)
                 ELSE Names[i - 1]
    IN  [ built |-> TRUE,
          persona_name |-> me.name,
          other_personas |-> Append(Names[Len(all_personas)], UserName),
          hot_takes |-> HotTakesToPrompt(takes),
          findings |-> NoFindings ]

\* _build_instructions of the instance of persona id: the template filled
\* with the persona's name, the others in the room, the hot takes and, where
\* research_results holds an entry of the persona, its findings.
BuildInstructions(id, all_personas, takes, researching, results) ==
    LET me == PersonaOf(id)
        Other(p) == p.name # me.name /\ p.id \notin researching
        \* [p.name for p in all_personas if ...], in the order of all_personas
        Names[i \in 0..Len(all_personas)] ==
            IF i = 0 THEN <<>>
            ELSE IF Other(all_personas[i])
                 THEN Append(Names[i - 1], all_personas[i].name)
                 ELSE Names[i - 1]
    IN  [ built |-> TRUE,
          persona_name |-> me.name,
          other_personas |-> Append(Names[Len(all_personas)], UserName),
          hot_takes |-> HotTakesToPrompt(takes),
          findings |-> IF id \in DOMAIN results
                       THEN [present |-> TRUE, take |-> results[id].take,
                             explanation |-> results[id].explanation]
                       ELSE NoFindings ]

NoInstructions == [built |-> FALSE]

\* self._refresh_instructions() of the instance of persona id.
RefreshInstructions(id, takes) ==
    [instructions EXCEPT ![id] =
        BuildInstructions(id, personas, takes, researching_agents, research_results)]

----------------------------------------------------------------------------
\* _send_rpc tasks.

\* A _send_rpc call: attempts counts the perform_rpc calls of it that have
\* raised; awaited tells whether a tool awaits it (a task made by
\* asyncio.create_task is awaited by nobody).
RpcTask(method, payload) ==
    [method |-> method, payload |-> payload, attempts |-> 0, awaited |-> FALSE]

CreateTask(tasks, method, payload) == Append(tasks, RpcTask(method, payload))

\* await self._send_rpc(method, payload) of a tool.
Await(tasks, method, payload) ==
    Append(tasks, [RpcTask(method, payload) EXCEPT !.awaited = TRUE])

----------------------------------------------------------------------------
\* The room of the job.

NoData == [kind |-> "none"]

\* remote_participants: whether room.remote_participants holds anybody;
\* data: the payload of the last publish_data call on the topic avatar-tool;
\* calls: how many times the avatar_tool call that published it called
\* publish_data.
Joined == [remote_participants |-> TRUE, data |-> NoData, calls |-> 0]

\* Whether a _send_rpc finds somebody to call: session._room_io is set by
\* session.start, with the room of the job.
Endpoint == session_started /\ room.remote_participants

----------------------------------------------------------------------------
\* Tool results.

\* A tool call ends by returning a value or by raising a ToolError; args are
\* the texts a hot-take tool was called with.
NoResult == [tool |-> "none", args |-> <<>>, error |-> "none", value |-> "none"]
Returned(tool, args, value) == [tool |-> tool, args |-> args, error |-> "none", value |-> value]
ToolError(tool, args, kind) == [tool |-> tool, args |-> args, error |-> kind, value |-> "none"]

DuplicateTake == "Hot take already exists"
CapacityExceeded == "Limit reached"
TakeNotFound == "Hot take not found"

----------------------------------------------------------------------------
\* Transcript messages and user input.

Msg(role, speaker, content) == [role |-> role, speaker |-> speaker, content |-> content]

Transcripts == {" ", "cats "}

\* str.strip() on the transcripts above and on the types of avatar calls.
Strip(t) ==
    CASE t = " " -> "" [] t = "cats " -> "cats"
      [] t = " setExpression " -> "setExpression" [] t = " setPose" -> "setPose"
      [] OTHER -> t

NoText == "None"

HasUserMessage(items) == \E i \in DOMAIN items : items[i].role = "user"

\* A string built from pieces: the pieces in their order.  A stored content
\* is one piece.
Text(content) == <<content>>

\* f"*{item.speaker} says* {content}"
Attributed(speaker, content) == <<"*">> \o speaker \o <<" says* ">> \o Text(content)

\* A reformatting that attributes every message, the persona's own too.
ReformatHistoryAttributeAll(name, items) ==
    [i \in DOMAIN items |->
        LET item == items[i]
            is_self == item.speaker = name
        IN  [ role |-> IF is_self THEN "assistant" ELSE "user",
              content |-> Attributed(item.speaker, item.content),
              speaker |-> IF is_self THEN name ELSE item.speaker ]]

\* A reformatting that takes every assistant message for the persona's own.
ReformatHistoryByRole(name, items) ==
    [i \in DOMAIN items |->
        LET item == items[i]
            is_self == item.role = "assistant"
        IN  [ role |-> IF is_self THEN "assistant" ELSE "user",
              content |-> IF is_self THEN Text(item.content)
                          ELSE Attributed(item.speaker, item.content),
              speaker |-> IF is_self THEN name ELSE item.speaker ]]

\* _reformat_history for the instance whose persona.name is name: a copy of
\* the items, each rebuilt with the role, content and speaker as this
\* persona sees them.
ReformatHistory(name, items) ==
    [i \in DOMAIN items |->
        LET item == items[i]
            is_self == item.speaker = name
        IN  [ role |-> IF is_self THEN "assistant" ELSE "user",
              content |-> IF is_self THEN Text(item.content)
                          ELSE Attributed(item.speaker, item.content),
              speaker |-> IF is_self THEN name ELSE item.speaker ]]

----------------------------------------------------------------------------
\* The research task: _run_research driving research_agent.

Attempts == 1..NUM_ATTEMPTS

NoAttempts == [i \in Attempts |-> "idle"]

\* pc: where the task is; self: the persona whose instance runs it;
\* response: the do_search task whose result research_agent took; image:
\* whether the image was generated; published: the _send_rpc calls of the
\* task that returned; raised: what ended the task with an exception.
NoResearch ==
    [pc |-> "none", self |-> -1, response |-> 0, image |-> FALSE, published |-> <<>>,
     raised |-> "none"]

\* What extract_json finds in the response of attempt i: the take and the
\* explanation of a response that holds JSON, "" where it holds none.
Finding(state, i) == IF state = "json" THEN <<i>> ELSE <<>>

\* The data of the DONE event.
Data(state, i, image) ==
    [take |-> Finding(state, i), explanation |-> Finding(state, i),
     image_url |-> IF image THEN "url" ELSE "None"]

----------------------------------------------------------------------------
\* entrypoint: the session state, then either _start_with_topic(topic) with
\* the topic of the job metadata (session.start is not called on that
\* branch), or session.start with the TopicCollectorAgent.
Init ==
    /\ hot_takes = <<>>
    /\ research_results = <<>>
    /\ researching_agents = {}
    /\ history = <<>>
    /\ personas = <<>>
    /\ active = {}
    /\ first = FALSE
    /\ instructions = [id \in PersonaIds |-> NoInstructions]
    /\ enter_pc = "none"
    /\ decisions = 0
    /\ prompt_tasks = 0
    /\ playing = 0
    /\ chat_ctx = <<>>
    /\ first_done = FALSE
    /\ \E topic_given \in BOOLEAN :
          IF topic_given
          THEN /\ session_started = FALSE
               /\ start_task = [state |-> "created", user_text |-> NoText]
          ELSE /\ session_started = TRUE
               /\ start_task = [state |-> "none", user_text |-> NoText]
    /\ rpc_tasks = <<>>
    /\ attempts = NoAttempts
    /\ research = NoResearch
    /\ room = Joined
    /\ tool_result = NoResult

----------------------------------------------------------------------------
\* The hot-take tools of the DebateAgent whose persona is self.

\* add_hot_take without the test of the limit.
AddErrorNoLimit(takes, text) ==
    IF Contains(takes, text) THEN DuplicateTake ELSE "none"

\* add_hot_take without the test for an existing text.
AddErrorNoDuplicate(takes, text) ==
    IF Len(takes) >= MAX_HOT_TAKES THEN CapacityExceeded ELSE "none"

\* The ToolError add_hot_take raises, "none" when it raises none.
AddError(takes, text) ==
    IF Contains(takes, text) THEN DuplicateTake
    ELSE IF Len(takes) >= MAX_HOT_TAKES THEN CapacityExceeded
    ELSE "none"

\* A replace done as remove and append.
ReplacedAtEnd(takes, old_text, new_text) ==
    Append(RemoveFirst(takes, old_text), new_text)

\* takes[takes.index(old_text)] = new_text
Replaced(takes, old_text, new_text) ==
    [takes EXCEPT ![IndexOf(takes, old_text)] = new_text]

\* A mutation that refreshes the instructions from the list as it was.
MutatedStalePrompt(self, takes, tool, args, value) ==
    /\ hot_takes' = takes
    /\ instructions' = RefreshInstructions(self, hot_takes)
    /\ rpc_tasks' = CreateTask(rpc_tasks, "hot_takes_updated", takes)
    /\ tool_result' = Returned(tool, args, value)

\* A mutation that queues the list itself and not a copy of it: every
\* pending notification shows the list as it is now.
MutatedSharedList(self, takes, tool, args, value) ==
    /\ hot_takes' = takes
    /\ instructions' = RefreshInstructions(self, takes)
    /\ rpc_tasks' =
          CreateTask([i \in DOMAIN rpc_tasks |->
                         IF rpc_tasks[i].method = "hot_takes_updated"
                         THEN [rpc_tasks[i] EXCEPT !.payload = takes]
                         ELSE rpc_tasks[i]],
                     "hot_takes_updated", takes)
    /\ tool_result' = Returned(tool, args, value)

\* What a successful mutation does after changing the list:
\* await self._refresh_instructions(), then
\* asyncio.create_task(self._send_rpc("hot_takes_updated", {"takes": list(takes)})).
Mutated(self, takes, tool, args, value) ==
    /\ hot_takes' = takes
    /\ instructions' = RefreshInstructions(self, takes)
    /\ rpc_tasks' = CreateTask(rpc_tasks, "hot_takes_updated", takes)
    /\ tool_result' = Returned(tool, args, value)

\* A raise that comes after the notification was queued.
RaisedAfterNotify(tool, args, kind) ==
    /\ tool_result' = ToolError(tool, args, kind)
    /\ rpc_tasks' = CreateTask(rpc_tasks, "hot_takes_updated", hot_takes)
    /\ UNCHANGED <<hot_takes, instructions>>

\* raise ToolError(...): the call ends before it has changed anything.
Raised(tool, args, kind) ==
    /\ tool_result' = ToolError(tool, args, kind)
    /\ UNCHANGED <<hot_takes, instructions, rpc_tasks>>

AddHotTake(self, text) ==
    /\ session_started
    /\ self \in active
    /\ IF AddError(hot_takes, text) # "none"
       THEN Raised("add_hot_take", <<text>>, AddError(hot_takes, text))
       ELSE Mutated(self, Append(hot_takes, text), "add_hot_take", <<text>>, "Added")
    /\ UNCHANGED <<research_results, researching_agents, history, turn, boot, race, room>>

ReplaceHotTake(self, old_text, new_text) ==
    /\ session_started
    /\ self \in active
    /\ IF ~Contains(hot_takes, old_text)
       THEN Raised("replace_hot_take", <<old_text, new_text>>, TakeNotFound)
       ELSE Mutated(self, Replaced(hot_takes, old_text, new_text),
                    "replace_hot_take", <<old_text, new_text>>, "Replaced")
    /\ UNCHANGED <<research_results, researching_agents, history, turn, boot, race, room>>

DeleteHotTake(self, text) ==
    /\ session_started
    /\ self \in active
    /\ IF ~Contains(hot_takes, text)
       THEN Raised("delete_hot_take", <<text>>, TakeNotFound)
       ELSE Mutated(self, RemoveFirst(hot_takes, text), "delete_hot_take", <<text>>,
                    "Deleted")
    /\ UNCHANGED <<research_results, researching_agents, history, turn, boot, race, room>>

----------------------------------------------------------------------------
\* One attempt of a _send_rpc call, by what it finds: no remote endpoint,
\* a perform_rpc that returns, or a perform_rpc that raises.

Without(tasks, i) == SubSeq(tasks, 1, i - 1) \o SubSeq(tasks, i + 1, Len(tasks))

RpcError == "RpcError"

\* The _send_rpc call has returned (error "none") or raised: a tool that
\* awaited it goes on to its return, or ends with the exception.
Resumed(task, error) ==
    IF task.awaited
    THEN tool_result' = IF error = "none"
                        THEN Returned(task.method, <<task.payload>>, "None")
                        ELSE ToolError(task.method, <<task.payload>>, error)
    ELSE UNCHANGED tool_result

\* A _send_rpc that takes a room without remote participants for a failure.
RpcNoEndpointRetried(i) ==
    /\ i \in DOMAIN rpc_tasks
    /\ ~Endpoint
    /\ rpc_tasks' = [rpc_tasks EXCEPT ![i].attempts = (@ + 1) % RPC_ATTEMPTS]
    /\ UNCHANGED <<shared, history, turn, boot, race, room, instructions, tool_result>>

RpcNoEndpoint(i) ==
    /\ i \in DOMAIN rpc_tasks
    /\ ~Endpoint
    /\ rpc_tasks' = Without(rpc_tasks, i)
    /\ Resumed(rpc_tasks[i], "none")
    /\ UNCHANGED <<shared, history, turn, boot, race, room, instructions>>

RpcDelivered(i) ==
    /\ i \in DOMAIN rpc_tasks
    /\ Endpoint
    /\ rpc_tasks' = Without(rpc_tasks, i)
    /\ Resumed(rpc_tasks[i], "none")
    /\ UNCHANGED <<shared, history, turn, boot, race, room, instructions>>

\* A retry that stops at no number of attempts.
RpcFailedNoStop(i) ==
    /\ i \in DOMAIN rpc_tasks
    /\ Endpoint
    /\ rpc_tasks' = [rpc_tasks EXCEPT ![i].attempts = (@ + 1) % RPC_ATTEMPTS]
    /\ UNCHANGED <<shared, history, turn, boot, race, room, instructions, tool_result>>

\* tenacity: retry until stop_after_attempt(3), then reraise.
RpcFailed(i) ==
    /\ i \in DOMAIN rpc_tasks
    /\ Endpoint
    /\ IF rpc_tasks[i].attempts + 1 >= RPC_ATTEMPTS
       THEN /\ rpc_tasks' = Without(rpc_tasks, i)
            /\ Resumed(rpc_tasks[i], RpcError)
       ELSE /\ rpc_tasks' = [rpc_tasks EXCEPT ![i].attempts = @ + 1]
            /\ UNCHANGED tool_result
    /\ UNCHANGED <<shared, history, turn, boot, race, room, instructions>>

\* A remote participant joins the room, or the last one leaves it.
ParticipantConnected ==
    /\ ~room.remote_participants
    /\ room' = [room EXCEPT !.remote_participants = TRUE]
    /\ UNCHANGED <<shared, history, turn, boot, race, instructions, rpc_tasks, tool_result>>

ParticipantDisconnected ==
    /\ room.remote_participants
    /\ room' = [room EXCEPT !.remote_participants = FALSE]
    /\ UNCHANGED <<shared, history, turn, boot, race, instructions, rpc_tasks, tool_result>>

\* emoji_reaction up to its await self._send_rpc(...): the tool returns
\* None, or ends with the exception, when the call is over.
EmojiReaction(self, emoji) ==
    /\ session_started
    /\ self \in active
    /\ rpc_tasks' = Await(rpc_tasks, "emoji_reaction",
                          [emoji |-> emoji, speaker_id |-> self])
    /\ UNCHANGED <<shared, history, turn, boot, race, room, instructions, tool_result>>

----------------------------------------------------------------------------
\* The avatar tool.  A string is the sequence of its characters; Nil is
\* Python's None, also for a key that a dict does not hold.

Nil == <<"None">>

\* bool(x) of a string or None.
Truthy(x) == x # Nil /\ x # <<>>

SUPPORTED_AVATAR_IDS == {<<"a", "s", "s", "i", "s", "t", "a", "n", "t">>, <<"l", "o", "c", "a", "l">>}

SUPPORTED_EXPRESSIONS ==
    { <<"s", "m", "i", "l", "e">>,
      <<"s", "u", "r", "p", "r", "i", "s", "e", "d">>,
      <<"c", "o", "n", "c", "e", "r", "n", "e", "d">>,
      <<"w", "i", "n", "k">>, <<"l", "a", "u", "g", "h">> }

EXPRESSION_SYNONYMS ==
    (<<"h", "a", "p", "p", "y">> :> <<"s", "m", "i", "l", "e">>)
    @@ (<<"s", "e", "r", "i", "o", "u", "s">> :> <<"c", "o", "n", "c", "e", "r", "n", "e", "d">>)
    @@ (<<"s", "a", "d">> :> <<"c", "o", "n", "c", "e", "r", "n", "e", "d">>)
    @@ (<<"f", "r", "o", "w", "n">> :> <<"c", "o", "n", "c", "e", "r", "n", "e", "d">>)
    @@ (<<"b", "l", "i", "n", "k">> :> <<"w", "i", "n", "k">>)
    @@ (<<"w", "i", "n", "k", "i", "n", "g">> :> <<"w", "i", "n", "k">>)

\* EXPRESSION_SYNONYMS.get(preset, preset)
Synonym(preset) ==
    IF preset \in DOMAIN EXPRESSION_SYNONYMS THEN EXPRESSION_SYNONYMS[preset] ELSE preset

\* An AvatarToolCall as model_dump() gives it: type, preset, the extra field
\* expression, and of context the keys avatar_tool reads.
Call(type, preset, expression, ctx_preset, ctx_expression, avatar_id) ==
    [type |-> type, preset |-> preset, expression |-> expression,
     context |-> [preset |-> ctx_preset, expression |-> ctx_expression,
                  avatarId |-> avatar_id]]

Skipped(reason) == [result |-> [status |-> "skipped", reason |-> reason], data |-> NoData]

\* {"kind": "avatar-tool", "call": {...}}, the context only with an avatarId.
AvatarPayload(preset, avatar_id) ==
    [kind |-> "avatar-tool",
     call |-> IF Truthy(avatar_id)
              THEN [type |-> "setExpression", preset |-> preset,
                    context |-> [avatarId |-> avatar_id]]
              ELSE [type |-> "setExpression", preset |-> preset]]

\* An avatar_tool that takes the preset as it is written.
AvatarCallAsWritten(has_room, call) ==
    LET call_type == Strip(call.type)
        raw_preset ==
            IF Truthy(call.preset) THEN call.preset
            ELSE IF Truthy(call.expression) THEN call.expression
            ELSE IF Truthy(call.context.preset) THEN call.context.preset
            ELSE call.context.expression
        avatar_id == call.context.avatarId
    IN  IF ~has_room THEN [result |-> [status |-> "no-room"], data |-> NoData]
        ELSE IF call_type # "setExpression"
        THEN Skipped(<<"unsupported-type:", call_type>>)
        ELSE IF ~Truthy(raw_preset) THEN Skipped(<<"missing-preset">>)
        ELSE IF raw_preset \notin SUPPORTED_EXPRESSIONS
        THEN Skipped(<<"unsupported-preset:">> \o raw_preset)
        ELSE IF Truthy(avatar_id) /\ avatar_id \notin SUPPORTED_AVATAR_IDS
        THEN Skipped(<<"unsupported-avatar:">> \o avatar_id)
        ELSE [result |-> [status |-> "sent"],
              data |-> AvatarPayload(raw_preset, avatar_id)]

\* An avatar_tool that sends to whatever avatar is named.
AvatarCallAnyAvatar(has_room, call) ==
    LET call_type == Strip(call.type)
        raw_preset ==
            IF Truthy(call.preset) THEN call.preset
            ELSE IF Truthy(call.expression) THEN call.expression
            ELSE IF Truthy(call.context.preset) THEN call.context.preset
            ELSE call.context.expression
        preset == Synonym(Lower(raw_preset))
        avatar_id == call.context.avatarId
    IN  IF ~has_room THEN [result |-> [status |-> "no-room"], data |-> NoData]
        ELSE IF call_type # "setExpression"
        THEN Skipped(<<"unsupported-type:", call_type>>)
        ELSE IF ~Truthy(raw_preset) THEN Skipped(<<"missing-preset">>)
        ELSE IF preset \notin SUPPORTED_EXPRESSIONS
        THEN Skipped(<<"unsupported-preset:">> \o preset)
        ELSE [result |-> [status |-> "sent"],
              data |-> AvatarPayload(preset, avatar_id)]

\* avatar_tool up to its publish: what it returns without publishing, or
\* the payload it hands to publish_data.
AvatarCall(has_room, call) ==
    LET call_type == Strip(call.type)
        raw_preset ==
            IF Truthy(call.preset) THEN call.preset
            ELSE IF Truthy(call.expression) THEN call.expression
            ELSE IF Truthy(call.context.preset) THEN call.context.preset
            ELSE call.context.expression
        preset == Synonym(Lower(raw_preset))
        avatar_id == call.context.avatarId
    IN  IF ~has_room THEN [result |-> [status |-> "no-room"], data |-> NoData]
        ELSE IF call_type # "setExpression"
        THEN Skipped(<<"unsupported-type:", call_type>>)
        ELSE IF ~Truthy(raw_preset) THEN Skipped(<<"missing-preset">>)
        ELSE IF preset \notin SUPPORTED_EXPRESSIONS
        THEN Skipped(<<"unsupported-preset:">> \o preset)
        ELSE IF Truthy(avatar_id) /\ avatar_id \notin SUPPORTED_AVATAR_IDS
        THEN Skipped(<<"unsupported-avatar:">> \o avatar_id)
        ELSE [result |-> [status |-> "sent"],
              data |-> AvatarPayload(preset, avatar_id)]

\* avatar_tool: the room is that of session._room_io, which session.start
\* has set; publish_data returns (ok) or raises, and is not tried again.
AvatarTool(self, call, ok) ==
    /\ session_started
    /\ self \in active
    /\ LET out == AvatarCall(session_started, call)
       IN  IF out.data = NoData
           THEN /\ tool_result' = Returned("avatar_tool", <<call>>, out.result)
                /\ UNCHANGED room
           ELSE /\ room' = [room EXCEPT !.data = out.data, !.calls = 1]
                /\ tool_result' =
                      Returned("avatar_tool", <<call>>,
                               IF ok THEN out.result
                               ELSE [status |-> "error", message |-> "str(e)"])
    /\ UNCHANGED <<shared, history, turn, boot, race, instructions, rpc_tasks>>

----------------------------------------------------------------------------
\* The transcript: an item added to session.history is attributed by the
\* conversation_item_added handler from session.current_agent.

Speaker(role) ==
    IF active # {}
    THEN IF role = "assistant" THEN PersonaOf(CHOOSE id \in active : TRUE).name ELSE UserName
    ELSE IF role = "user" THEN UserName ELSE AssistantLabel

\* A handler that writes the attributed item over the last item the
\* transcript held before.
ItemAddedOverLast(items, role, content) ==
    IF items = <<>> THEN <<Msg(role, Speaker(role), content)>>
    ELSE [items EXCEPT ![Len(items)] = Msg(role, Speaker(role), content)]

\* The session appends the item and emits conversation_item_added; the
\* handler puts the attributed item in the last place, where the item is.
ItemAdded(items, role, content) == Append(items, Msg(role, Speaker(role), content))

\* An item is added while the TopicCollectorAgent is the session's agent,
\* after the user's first final utterance: the user's message, or a reply
\* the language model gives for the collector.
CollectorItemAdded(role) ==
    /\ session_started
    /\ first_done
    /\ active = {}
    /\ Len(history) < MaxHistory
    /\ history' = ItemAdded(history, role, IF role = "user" THEN "turn" ELSE "reply")
    /\ UNCHANGED <<shared, turn, boot, race, room, instructions, rpc_tasks, tool_result>>

----------------------------------------------------------------------------
\* Turn taking.

\* An agent installed from the instance the persona had before, where it
\* had one, with the instructions and the context of that instance.
InstallAgentReused(id, all_personas, is_first) ==
    /\ active' = {id}
    /\ first' = is_first
    /\ instructions' =
          [instructions EXCEPT ![id] =
              IF @.built THEN @
              ELSE BuildInstructions(id, all_personas, hot_takes, researching_agents,
                                     research_results)]
    /\ enter_pc' = IF session_started THEN "enter" ELSE "none"
    /\ decisions' = 0
    /\ chat_ctx' = <<>>

\* An agent installed without the one before it being replaced.
InstallAgentBeside(id, all_personas, is_first) ==
    /\ active' = active \cup {id}
    /\ first' = is_first
    /\ instructions' =
          [instructions EXCEPT ![id] =
              BuildInstructions(id, all_personas, hot_takes, researching_agents,
                                research_results)]
    /\ enter_pc' = IF session_started THEN "enter" ELSE "none"
    /\ decisions' = 0
    /\ chat_ctx' = <<>>

\* A new DebateAgent for persona id becomes the session's agent, in place of
\* the one before it (session.update_agent, or the agent a tool returns).
InstallAgent(id, all_personas, is_first) ==
    /\ active' = {id}
    /\ first' = is_first
    /\ instructions' =
          [p \in PersonaIds |->
              IF p = id
              THEN BuildInstructions(id, all_personas, hot_takes, researching_agents,
                                     research_results)
              ELSE NoInstructions]
    /\ enter_pc' = IF session_started THEN "enter" ELSE "none"
    /\ decisions' = 0
    /\ chat_ctx' = <<>>

\* An _on_user that does not look at first_done.
UserInputTranscribedEvery(is_final, transcript) ==
    /\ session_started
    /\ IF ~is_final
       THEN UNCHANGED <<first_done, start_task>>
       ELSE /\ first_done' = TRUE
            /\ start_task' =
                  [state |-> "created",
                   user_text |-> IF Strip(transcript) = ""
                                 THEN "User provided no topic"
                                 ELSE Strip(transcript)]
    /\ UNCHANGED <<shared, history, turn, session_started, race, room, instructions,
                   rpc_tasks, tool_result>>

\* _on_user, the user_input_transcribed handler.
UserInputTranscribed(is_final, transcript) ==
    /\ session_started
    /\ IF first_done \/ ~is_final
       THEN UNCHANGED <<first_done, start_task>>
       ELSE /\ first_done' = TRUE
            /\ start_task' =
                  [state |-> "created",
                   user_text |-> IF Strip(transcript) = ""
                                 THEN "User provided no topic"
                                 ELSE Strip(transcript)]
    /\ UNCHANGED <<shared, history, turn, session_started, race, room, instructions,
                   rpc_tasks, tool_result>>

StartWithTopic ==
    /\ start_task.state = "created"
    /\ start_task.user_text # NoText => Len(history) < MaxHistory
    /\ start_task' = [start_task EXCEPT !.state = "done"]
    /\ personas' = Roster
    /\ hot_takes' = IF hot_takes # <<>> THEN hot_takes ELSE <<>>
    /\ history' = IF start_task.user_text # NoText
                  THEN Append(history, Msg("user", UserName, start_task.user_text))
                  ELSE history
    /\ InstallAgent(Roster[1].id, Roster, TRUE)
    /\ UNCHANGED <<research_results, researching_agents, prompt_tasks, playing,
                   session_started, first_done, race, room, rpc_tasks, tool_result>>

\* An on_enter that asks for the next speaker without replying first.
OnEnterDecideFirst(self) ==
    /\ self \in active
    /\ enter_pc = "enter"
    /\ rpc_tasks' =
          LET changed == CreateTask(rpc_tasks, "speaker_changed", self)
          IN  IF first
              THEN CreateTask(changed, "personas_created",
                              [i \in DOMAIN personas |-> personas[i].id])
              ELSE changed
    /\ chat_ctx' = ReformatHistory(PersonaOf(self).name, history)
    /\ enter_pc' = IF HasUserMessage(history) THEN "decide" ELSE "idle"
    /\ UNCHANGED <<shared, history, personas, active, first, decisions, prompt_tasks,
                   playing, boot, race, room, instructions, tool_result>>

\* An on_enter whose reformatting relabels the items of session.history
\* themselves and not those of a copy.
OnEnterInPlace(self) ==
    /\ self \in active
    /\ enter_pc = "enter"
    /\ rpc_tasks' =
          LET changed == CreateTask(rpc_tasks, "speaker_changed", self)
          IN  IF first
              THEN CreateTask(changed, "personas_created",
                              [i \in DOMAIN personas |-> personas[i].id])
              ELSE changed
    /\ chat_ctx' = ReformatHistory(PersonaOf(self).name, history)
    /\ history' = [i \in DOMAIN history |->
                      [history[i] EXCEPT !.role = chat_ctx'[i].role]]
    /\ enter_pc' = IF HasUserMessage(history) THEN "reply" ELSE "idle"
    /\ UNCHANGED <<shared, personas, active, first, decisions, prompt_tasks,
                   playing, boot, race, room, instructions, tool_result>>

\* on_enter up to its first generate_reply: the two publish tasks, then
\* update_chat_ctx with the reformatted history.
OnEnter(self) ==
    /\ self \in active
    /\ enter_pc = "enter"
    /\ rpc_tasks' =
          LET changed == CreateTask(rpc_tasks, "speaker_changed", self)
          IN  IF first
              THEN CreateTask(changed, "personas_created",
                              [i \in DOMAIN personas |-> personas[i].id])
              ELSE changed
    /\ chat_ctx' = ReformatHistory(PersonaOf(self).name, history)
    /\ enter_pc' = IF HasUserMessage(history) THEN "reply" ELSE "idle"
    /\ UNCHANGED <<shared, history, personas, active, first, decisions, prompt_tasks,
                   playing, boot, race, room, instructions, tool_result>>

\* The direct reply of on_enter has been generated and added to the transcript.
DirectReply(self) ==
    /\ self \in active
    /\ enter_pc = "reply"
    /\ Len(history) < MaxHistory
    /\ history' = ItemAdded(history, "assistant", "reply")
    /\ enter_pc' = "decide"
    /\ UNCHANGED <<shared, personas, active, first, decisions, prompt_tasks, playing,
                   chat_ctx, boot, race, room, instructions, rpc_tasks, tool_result>>

\* The second generate_reply of on_enter, forced to give_turn_to_next_speaker.
EnterDecision(self) ==
    /\ self \in active
    /\ enter_pc = "decide"
    /\ decisions' = decisions + 1
    /\ enter_pc' = "idle"
    /\ UNCHANGED <<shared, history, personas, active, first, prompt_tasks, playing,
                   chat_ctx, boot, race, room, instructions, rpc_tasks, tool_result>>

\* An on_user_turn_completed that asks for no decision.
UserTurnCompletedUnforced(self) ==
    /\ session_started
    /\ self \in active
    /\ Len(history) < MaxHistory
    /\ history' = ItemAdded(history, "user", "turn")
    /\ UNCHANGED <<shared, personas, active, first, enter_pc, decisions, prompt_tasks,
                   playing, chat_ctx, boot, race, room, instructions, rpc_tasks, tool_result>>

\* The user finished a turn while a DebateAgent is the session's agent: the
\* message is added to the transcript and on_user_turn_completed forces a
\* give_turn_to_next_speaker reply.
UserTurnCompleted(self) ==
    /\ session_started
    /\ self \in active
    /\ Len(history) < MaxHistory
    /\ history' = ItemAdded(history, "user", "turn")
    /\ decisions' = decisions + 1
    /\ UNCHANGED <<shared, personas, active, first, enter_pc, prompt_tasks, playing,
                   chat_ctx, boot, race, room, instructions, rpc_tasks, tool_result>>

Stay == [kind |-> "stay", id |-> -1]

\* next_speaker comparing the names as they are written.
TargetCaseSensitive(all_personas, speaker) ==
    IF speaker = UserName THEN [kind |-> "user", id |-> -1]
    ELSE IF \E i \in DOMAIN all_personas : all_personas[i].name = speaker
    THEN [kind |-> "persona",
          id |-> all_personas[CHOOSE i \in DOMAIN all_personas :
                                 all_personas[i].name = speaker].id]
    ELSE Stay

IsPrefix(s, t) == Len(s) <= Len(t) /\ SubSeq(t, 1, Len(s)) = s

\* next_speaker accepting the beginning of a name.
TargetByPrefix(all_personas, speaker) ==
    LET Match(i) == IsPrefix(Lower(speaker), Lower(all_personas[i].name))
    IN  IF Lower(speaker) = UserName THEN [kind |-> "user", id |-> -1]
        ELSE IF \E i \in DOMAIN all_personas : Match(i)
        THEN [kind |-> "persona",
              id |-> all_personas[CHOOSE i \in DOMAIN all_personas :
                          Match(i) /\ \A j \in 1..(i - 1) : ~Match(j)].id]
        ELSE Stay

\* Whom next_speaker hands the turn to: the user, the first persona of
\* all_personas whose lowered name equals the lowered speaker, or nobody.
Target(all_personas, speaker) ==
    LET Match(i) == Lower(all_personas[i].name) = Lower(speaker)
    IN  IF Lower(speaker) = UserName THEN [kind |-> "user", id |-> -1]
        ELSE IF \E i \in DOMAIN all_personas : Match(i)
        THEN [kind |-> "persona",
              id |-> all_personas[CHOOSE i \in DOMAIN all_personas :
                          Match(i) /\ \A j \in 1..(i - 1) : ~Match(j)].id]
        ELSE Stay

Resolved(n) == IF n > 0 THEN n - 1 ELSE 0

\* A handoff that takes the findings of the persona that leaves out of
\* research_results.
NextSpeakerConsuming(self, speaker) ==
    /\ session_started
    /\ self \in active
    /\ UNCHANGED <<hot_takes, researching_agents, history, personas, boot, race, room,
                   rpc_tasks>>
    /\ LET t == Target(personas, speaker)
       IN  CASE t.kind = "user" ->
                  /\ prompt_tasks < MaxPrompts
                  /\ prompt_tasks' = prompt_tasks + 1
                  /\ playing' = playing + 1
                  /\ decisions' = Resolved(decisions)
                  /\ tool_result' = Returned("give_turn_to_next_speaker", <<>>, "None")
                  /\ UNCHANGED <<active, first, instructions, enter_pc, chat_ctx,
                                 research_results>>
             [] t.kind = "persona" ->
                  /\ InstallAgent(t.id, personas, FALSE)
                  /\ research_results' =
                        [id \in DOMAIN research_results \ {self} |-> research_results[id]]
                  /\ tool_result' = Returned("give_turn_to_next_speaker", <<>>, "DebateAgent")
                  /\ UNCHANGED <<prompt_tasks, playing>>
             [] OTHER ->
                  /\ decisions' = Resolved(decisions)
                  /\ tool_result' = Returned("give_turn_to_next_speaker", <<>>, "None")
                  /\ UNCHANGED <<active, first, instructions, enter_pc, prompt_tasks,
                                 playing, chat_ctx, research_results>>

\* A fallback that asks the persona that stays for a fresh decision.
NextSpeakerAskAgain(self, speaker) ==
    /\ session_started
    /\ self \in active
    /\ UNCHANGED <<shared, history, personas, boot, race, room, rpc_tasks>>
    /\ LET t == Target(personas, speaker)
       IN  CASE t.kind = "user" ->
                  /\ prompt_tasks < MaxPrompts
                  /\ prompt_tasks' = prompt_tasks + 1
                  /\ playing' = playing + 1
                  /\ decisions' = Resolved(decisions)
                  /\ tool_result' = Returned("give_turn_to_next_speaker", <<>>, "None")
                  /\ UNCHANGED <<active, first, instructions, enter_pc, chat_ctx>>
             [] t.kind = "persona" ->
                  /\ InstallAgent(t.id, personas, FALSE)
                  /\ tool_result' = Returned("give_turn_to_next_speaker", <<>>, "DebateAgent")
                  /\ UNCHANGED <<prompt_tasks, playing>>
             [] OTHER ->
                  /\ decisions' = IF decisions = 0 THEN 1 ELSE decisions
                  /\ tool_result' = Returned("give_turn_to_next_speaker", <<>>, "None")
                  /\ UNCHANGED <<active, first, instructions, enter_pc, prompt_tasks,
                                 playing, chat_ctx>>

\* give_turn_to_next_speaker
NextSpeaker(self, speaker) ==
    /\ session_started
    /\ self \in active
    /\ UNCHANGED <<shared, history, personas, boot, race, room, rpc_tasks>>
    /\ LET t == Target(personas, speaker)
       IN  CASE t.kind = "user" ->
                  /\ prompt_tasks < MaxPrompts
                  /\ prompt_tasks' = prompt_tasks + 1
                  /\ playing' = playing + 1
                  /\ decisions' = Resolved(decisions)
                  /\ tool_result' = Returned("give_turn_to_next_speaker", <<>>, "None")
                  /\ UNCHANGED <<active, first, instructions, enter_pc, chat_ctx>>
             [] t.kind = "persona" ->
                  /\ InstallAgent(t.id, personas, FALSE)
                  /\ tool_result' = Returned("give_turn_to_next_speaker", <<>>, "DebateAgent")
                  /\ UNCHANGED <<prompt_tasks, playing>>
             [] OTHER ->
                  /\ decisions' = Resolved(decisions)
                  /\ tool_result' = Returned("give_turn_to_next_speaker", <<>>, "None")
                  /\ UNCHANGED <<active, first, instructions, enter_pc, prompt_tasks,
                                 playing, chat_ctx>>

\* await context.wait_for_playout() of one _prompt_user task returns: the
\* speech that made the tool call has been played out.
PlayoutFinished ==
    /\ playing > 0
    /\ playing' = playing - 1
    /\ UNCHANGED <<shared, history, personas, active, first, enter_pc, decisions,
                   prompt_tasks, chat_ctx, boot, race, room, instructions, rpc_tasks, tool_result>>

\* A _prompt_user that says the prompt without waiting for the playout.
PromptUserAtOnce ==
    /\ prompt_tasks > 0
    /\ Len(history) < MaxHistory
    /\ prompt_tasks' = prompt_tasks - 1
    /\ playing' = IF playing = prompt_tasks THEN playing - 1 ELSE playing
    /\ history' = ItemAdded(history, "assistant", "What do you think?")
    /\ UNCHANGED <<shared, personas, active, first, enter_pc, decisions, chat_ctx, boot, race, room,
                   instructions, rpc_tasks, tool_result>>

\* _prompt_user, after the playout: session.say("What do you think?").
PromptUser ==
    /\ prompt_tasks > playing
    /\ Len(history) < MaxHistory
    /\ prompt_tasks' = prompt_tasks - 1
    /\ history' = ItemAdded(history, "assistant", "What do you think?")
    /\ UNCHANGED <<shared, personas, active, first, enter_pc, decisions, playing,
                   chat_ctx, boot, race, room, instructions, rpc_tasks, tool_result>>

----------------------------------------------------------------------------
\* _run_research: for each event research_agent yields it awaits
\* _send_rpc("research_status", ...), which returns (ok) or, where it finds
\* somebody to call, raises after its last attempt; an exception ends the
\* task.  Such a call is taken in one step.

Failed(cause) == [research EXCEPT !.pc = "failed", !.raised = cause]

Published(next_pc, method) ==
    [research EXCEPT !.pc = next_pc, !.published = Append(@, method)]

\* The SEARCHING event; research_agent then creates the do_search tasks and
\* waits for the first of them to complete.
ReportSearching(ok) ==
    /\ research.pc = "searching"
    /\ ok \/ Endpoint
    /\ IF ok
       THEN /\ research' = Published("waiting", "searching")
            /\ attempts' = [i \in Attempts |-> "running"]
       ELSE /\ research' = Failed("rpc")
            /\ UNCHANGED attempts
    /\ UNCHANGED <<shared, history, turn, boot, room, instructions, rpc_tasks, tool_result>>

\* chat.sample() of a do_search task returns a response, with JSON in it or
\* without.
AttemptReturns(i, json) ==
    /\ attempts[i] = "running"
    /\ attempts' = [attempts EXCEPT ![i] = IF json THEN "json" ELSE "text"]
    /\ UNCHANGED <<shared, history, turn, boot, room, instructions, rpc_tasks, research,
                   tool_result>>

\* chat.sample() of a do_search task raises.
AttemptRaises(i) ==
    /\ attempts[i] = "running"
    /\ attempts' = [attempts EXCEPT ![i] = "raised"]
    /\ UNCHANGED <<shared, history, turn, boot, room, instructions, rpc_tasks, research,
                   tool_result>>

Done(tasks) == {i \in Attempts : tasks[i] \in {"json", "text", "raised"}}

Cancelled(tasks) ==
    [i \in Attempts |-> IF tasks[i] = "running" THEN "cancelled" ELSE tasks[i]]

\* asyncio.wait(tasks, return_when=FIRST_COMPLETED) has returned: the tasks
\* still pending are cancelled and done.pop().result() is taken, w being
\* any task of the done set; the result of a task that raised is its
\* exception, which research_agent turns into the ERROR event.
RaceDecided(w) ==
    /\ research.pc = "waiting"
    /\ w \in Done(attempts)
    /\ attempts' = Cancelled(attempts)
    /\ research' =
          IF attempts[w] = "raised"
          THEN [research EXCEPT !.pc = "error"]
          ELSE [research EXCEPT !.pc = "processing", !.response = w]
    /\ UNCHANGED <<shared, history, turn, boot, room, instructions, rpc_tasks, tool_result>>

\* The PROCESSING_DATA event; research_agent then extracts the JSON, asks
\* for the image (a failure leaves image_url None) and yields DONE.
ReportProcessing(ok, image) ==
    /\ research.pc = "processing"
    /\ ok \/ Endpoint
    /\ research' = IF ok
                   THEN [Published("done", "processing_data") EXCEPT !.image = image]
                   ELSE Failed("rpc")
    /\ UNCHANGED <<shared, history, turn, boot, room, instructions, rpc_tasks, attempts,
                   tool_result>>

\* A DONE handling that stores what the last completed attempt returned.
ReportDoneLastAttempt(ok) ==
    /\ research.pc = "done"
    /\ ok \/ Endpoint
    /\ IF ok
       THEN LET self == research.self
                Returned_ == {i \in Attempts : attempts[i] \in {"json", "text"}}
                w == CHOOSE i \in Returned_ : \A j \in Returned_ : j <= i
            IN  /\ research_results' =
                      (self :> Data(attempts[w], w, research.image)) @@ research_results
                /\ researching_agents' = researching_agents \ {self}
                /\ research' = Published("refresh", "done")
       ELSE /\ research' = Failed("rpc")
            /\ UNCHANGED <<research_results, researching_agents>>
    /\ UNCHANGED <<hot_takes, history, turn, boot, room, instructions, rpc_tasks, attempts,
                   tool_result>>

\* The DONE event: after the status, the data goes into research_results
\* and the persona leaves researching_agents.
ReportDone(ok) ==
    /\ research.pc = "done"
    /\ ok \/ Endpoint
    /\ IF ok
       THEN LET self == research.self
                w == research.response
            IN  /\ research_results' =
                      (self :> Data(attempts[w], w, research.image)) @@ research_results
                /\ researching_agents' = researching_agents \ {self}
                /\ research' = Published("refresh", "done")
       ELSE /\ research' = Failed("rpc")
            /\ UNCHANGED <<research_results, researching_agents>>
    /\ UNCHANGED <<hot_takes, history, turn, boot, room, instructions, rpc_tasks, attempts,
                   tool_result>>

\* A completion that gives the turn back to the persona that researched.
RefreshAfterResearchTakesTurn ==
    /\ research.pc = "refresh"
    /\ InstallAgent(research.self, personas, FALSE)
    /\ research' = [research EXCEPT !.pc = "returning"]
    /\ UNCHANGED <<shared, history, personas, prompt_tasks, playing, boot, room, rpc_tasks,
                   attempts, tool_result>>

\* await self._refresh_instructions() of the instance that runs the task.
RefreshAfterResearch ==
    /\ research.pc = "refresh"
    /\ instructions' = RefreshInstructions(research.self, hot_takes)
    /\ research' = [research EXCEPT !.pc = "returning"]
    /\ UNCHANGED <<shared, history, turn, boot, room, rpc_tasks, attempts, tool_result>>

\* await self._send_rpc("agent_returned", ...), after which research_agent
\* ends.
ReportReturned(ok) ==
    /\ research.pc = "returning"
    /\ ok \/ Endpoint
    /\ research' = IF ok THEN Published("finished", "agent_returned") ELSE Failed("rpc")
    /\ UNCHANGED <<shared, history, turn, boot, room, instructions, rpc_tasks, attempts,
                   tool_result>>

\* The ERROR event; research_agent then re-raises the exception, which
\* leaves _run_research through its async for.
ReportError(ok) ==
    /\ research.pc = "error"
    /\ ok \/ Endpoint
    /\ research' = IF ok
                   THEN [Published("failed", "error") EXCEPT !.raised = "research"]
                   ELSE Failed("rpc")
    /\ UNCHANGED <<shared, history, turn, boot, room, instructions, rpc_tasks, attempts,
                   tool_result>>

----------------------------------------------------------------------------
\* The specifications.

\* No publish task is pending: the tasks an event creates run before the
\* next event of the session.
Quiet == rpc_tasks = <<>>

\* The whole session.
Next ==
    \/ \E is_final \in BOOLEAN, transcript \in Transcripts :
          Quiet /\ UserInputTranscribed(is_final, transcript)
    \/ Quiet /\ StartWithTopic
    \/ \E self \in active : Quiet /\ OnEnter(self)
    \/ \E self \in active : Quiet /\ DirectReply(self)
    \/ \E self \in active : Quiet /\ EnterDecision(self)
    \/ \E self \in active : Quiet /\ UserTurnCompleted(self)
    \/ \E self \in active, speaker \in SpeakerInputs : Quiet /\ NextSpeaker(self, speaker)
    \/ Quiet /\ PlayoutFinished
    \/ Quiet /\ PromptUser
    \/ \E self \in active, text \in SessionTakes : Quiet /\ AddHotTake(self, text)
    \/ \E self \in active, old_text \in SessionTakes, new_text \in SessionTakes :
          Quiet /\ ReplaceHotTake(self, old_text, new_text)
    \/ \E self \in active, text \in SessionTakes : Quiet /\ DeleteHotTake(self, text)
    \/ \E i \in DOMAIN rpc_tasks : RpcDelivered(i)
    \/ \E i \in DOMAIN rpc_tasks : RpcFailed(i)

Spec == Init /\ [][Next]_vars

\* The turns of the session: the bootstrap, the speakers' entries, the user's
\* turns and the next-speaker decisions, with no hot-take call.
NextTurns ==
    \/ \E is_final \in BOOLEAN, transcript \in Transcripts :
          Quiet /\ UserInputTranscribed(is_final, transcript)
    \/ Quiet /\ StartWithTopic
    \/ \E self \in active : Quiet /\ OnEnter(self)
    \/ \E self \in active : Quiet /\ DirectReply(self)
    \/ \E self \in active : Quiet /\ EnterDecision(self)
    \/ \E self \in active : Quiet /\ UserTurnCompleted(self)
    \/ \E self \in active, speaker \in SpeakerInputs : Quiet /\ NextSpeaker(self, speaker)
    \/ Quiet /\ PlayoutFinished
    \/ Quiet /\ PromptUser
    \/ \E i \in DOMAIN rpc_tasks : RpcDelivered(i)
    \/ \E i \in DOMAIN rpc_tasks : RpcFailed(i)

SpecTurns == Init /\ [][NextTurns]_vars

\* One speaker's turn: the debate has started from the topic "cats", Raven
\* has entered and is generating the direct reply, and the model calls the
\* hot-take tools; each publish task runs before the next tool call.
InitTakes ==
    /\ hot_takes = <<>>
    /\ research_results = <<>>
    /\ researching_agents = {}
    /\ history = <<Msg("user", UserName, "cats")>>
    /\ personas = Roster
    /\ active = {0}
    /\ first = TRUE
    /\ instructions =
          [p \in PersonaIds |->
              IF p = 0 THEN BuildInstructions(0, Roster, <<>>, {}, <<>>)
              ELSE NoInstructions]
    /\ enter_pc = "reply"
    /\ decisions = 0
    /\ prompt_tasks = 0
    /\ playing = 0
    /\ chat_ctx = ReformatHistory(Roster[1].name, <<Msg("user", UserName, "cats")>>)
    /\ session_started = TRUE
    /\ first_done = TRUE
    /\ start_task = [state |-> "done", user_text |-> "cats"]
    /\ rpc_tasks = <<>>
    /\ attempts = NoAttempts
    /\ research = NoResearch
    /\ room = Joined
    /\ tool_result = NoResult

NextTakes ==
    \/ \E self \in active, text \in Takes : Quiet /\ AddHotTake(self, text)
    \/ \E self \in active, old_text \in Takes, new_text \in Takes :
          Quiet /\ ReplaceHotTake(self, old_text, new_text)
    \/ \E self \in active, text \in Takes : Quiet /\ DeleteHotTake(self, text)
    \/ \E i \in DOMAIN rpc_tasks : RpcDelivered(i)
    \/ \E i \in DOMAIN rpc_tasks : RpcFailed(i)

SpecTakes == InitTakes /\ [][NextTakes]_vars

\* The messages a transcript holds after the opening one: the user's turns,
\* the personas' replies and prompts, and a reply attributed while the
\* TopicCollectorAgent was the session's agent.
StoreMessages ==
    { Msg("user", UserName, "turn"),
      Msg("assistant", AssistantLabel, "reply") }
    \cup { Msg("assistant", Roster[i].name, c) :
             i \in DOMAIN Roster, c \in {"reply", "What do you think?"} }

\* The transcripts of at most MaxStore messages that open with the user's
\* topic.
Stores ==
    { <<Msg("user", UserName, "cats")>> \o rest :
         rest \in UNION { [1..n -> StoreMessages] : n \in 0..(MaxStore - 1) } }

\* The view of the transcript: a handoff has just installed a persona over
\* a transcript of the debate, and the speakers enter and hand over;
\* tool_result records the calls made from then on.
InitView ==
    /\ hot_takes = <<>>
    /\ research_results = <<>>
    /\ researching_agents = {}
    /\ history \in Stores
    /\ personas = Roster
    /\ \E id \in PersonaIds :
          /\ active = {id}
          /\ instructions =
                [p \in PersonaIds |->
                    IF p = id THEN BuildInstructions(id, Roster, <<>>, {}, <<>>)
                    ELSE NoInstructions]
    /\ first = FALSE
    /\ enter_pc = "enter"
    /\ decisions = 0
    /\ prompt_tasks = 0
    /\ playing = 0
    /\ chat_ctx = <<>>
    /\ session_started = TRUE
    /\ first_done = TRUE
    /\ start_task = [state |-> "done", user_text |-> "cats"]
    /\ rpc_tasks = <<>>
    /\ attempts = NoAttempts
    /\ research = NoResearch
    /\ room = Joined
    /\ tool_result = NoResult

NextView ==
    \/ \E self \in active : Quiet /\ OnEnter(self)
    \/ \E self \in active, speaker \in SpeakerInputs : Quiet /\ NextSpeaker(self, speaker)
    \/ Quiet /\ PlayoutFinished
    \/ Quiet /\ PromptUser
    \/ \E i \in DOMAIN rpc_tasks : RpcDelivered(i)
    \/ \E i \in DOMAIN rpc_tasks : RpcFailed(i)

SpecView == InitView /\ [][NextView]_vars

\* The names the language model hands the turn to while a research task
\* runs: those of the roster, and one of nobody.
ResearchSpeakers == RosterNames \cup {<<"B", "o", "b">>}

\* The research task: persona self has added itself to researching_agents
\* and created its _run_research task, as dig_deeper is written to do, and
\* research_agent has yielded SEARCHING.  The session's agent is the runner
\* itself, built before the research began, or the persona it handed over
\* to, built since; the speakers hand over while the task runs.
InitResearch ==
    /\ hot_takes = <<>>
    /\ research_results = <<>>
    /\ history = <<Msg("user", UserName, "cats")>>
    /\ personas = Roster
    /\ \E self \in PersonaIds, speaker \in PersonaIds :
          /\ researching_agents = {self}
          /\ research = [NoResearch EXCEPT !.pc = "searching", !.self = self]
          /\ active = {speaker}
          /\ instructions =
                [p \in PersonaIds |->
                    IF p = speaker
                    THEN BuildInstructions(p, Roster, <<>>, {self} \ {p}, <<>>)
                    ELSE NoInstructions]
          /\ chat_ctx = ReformatHistory(PersonaOf(speaker).name,
                                        <<Msg("user", UserName, "cats")>>)
    /\ first = FALSE
    /\ enter_pc = "idle"
    /\ decisions = 0
    /\ prompt_tasks = 0
    /\ playing = 0
    /\ session_started = TRUE
    /\ first_done = TRUE
    /\ start_task = [state |-> "done", user_text |-> "cats"]
    /\ rpc_tasks = <<>>
    /\ attempts = NoAttempts
    /\ room = Joined
    /\ tool_result = NoResult

NextResearch ==
    \/ \E ok \in BOOLEAN : ReportSearching(ok)
    \/ \E i \in Attempts, json \in BOOLEAN : AttemptReturns(i, json)
    \/ \E i \in Attempts : AttemptRaises(i)
    \/ \E w \in Attempts : RaceDecided(w)
    \/ \E ok \in BOOLEAN, image \in BOOLEAN : ReportProcessing(ok, image)
    \/ \E ok \in BOOLEAN : ReportDone(ok)
    \/ RefreshAfterResearch
    \/ \E ok \in BOOLEAN : ReportReturned(ok)
    \/ \E ok \in BOOLEAN : ReportError(ok)
    \/ \E self \in active, speaker \in ResearchSpeakers : NextSpeaker(self, speaker)

SpecResearch == InitResearch /\ [][NextResearch]_vars

\* The emojis the language model may react with.
Emojis == {"fire", "clap"}

\* The gateway: the bootstrap has just installed the first persona; the
\* speakers enter, hand over, change the hot takes and react with emojis,
\* while the frontend joins and leaves the room.
InitGateway ==
    /\ hot_takes = <<>>
    /\ research_results = <<>>
    /\ researching_agents = {}
    /\ history = <<Msg("user", UserName, "cats")>>
    /\ personas = Roster
    /\ active = {Roster[1].id}
    /\ first = TRUE
    /\ instructions =
          [p \in PersonaIds |->
              IF p = Roster[1].id
              THEN BuildInstructions(p, Roster, <<>>, {}, <<>>)
              ELSE NoInstructions]
    /\ enter_pc = "enter"
    /\ decisions = 0
    /\ prompt_tasks = 0
    /\ playing = 0
    /\ chat_ctx = <<>>
    /\ session_started = TRUE
    /\ first_done = TRUE
    /\ start_task = [state |-> "done", user_text |-> "cats"]
    /\ rpc_tasks = <<>>
    /\ attempts = NoAttempts
    /\ research = NoResearch
    /\ room \in {Joined, [Joined EXCEPT !.remote_participants = FALSE]}
    /\ tool_result = NoResult

NextGateway ==
    \/ \E self \in active : Quiet /\ OnEnter(self)
    \/ \E self \in active, speaker \in RosterNames : Quiet /\ NextSpeaker(self, speaker)
    \/ \E self \in active, text \in SessionTakes : Quiet /\ AddHotTake(self, text)
    \/ \E self \in active, text \in SessionTakes : Quiet /\ DeleteHotTake(self, text)
    \/ \E self \in active, emoji \in Emojis : Quiet /\ EmojiReaction(self, emoji)
    \/ \E i \in DOMAIN rpc_tasks : RpcNoEndpoint(i)
    \/ \E i \in DOMAIN rpc_tasks : RpcDelivered(i)
    \/ \E i \in DOMAIN rpc_tasks : RpcFailed(i)
    \/ ParticipantConnected
    \/ ParticipantDisconnected

SpecGateway == InitGateway /\ [][NextGateway]_vars

\* One attempt of some pending _send_rpc call.
RpcStep ==
    \E i \in DOMAIN rpc_tasks : RpcNoEndpoint(i) \/ RpcDelivered(i) \/ RpcFailed(i)

\* The event loop runs every pending call, and an attempt returns or raises.
SpecGatewayFair == SpecGateway /\ WF_vars(RpcStep)

\* The calls the language model may make of the avatar tool.
AvatarTypes == {"setExpression", " setExpression ", "setPose", " setPose", ""}

PresetInputs ==
    { Nil, <<>>,
      <<"H", "a", "p", "p", "y">>,
      <<"S", "M", "I", "L", "E">>,
      <<"S", "A", "D">>,
      <<"W", "i", "n", "k", "i", "n", "g">>,
      <<"s", "e", "r", "i", "o", "u", "s">>,
      <<"f", "r", "o", "w", "n">>,
      <<"b", "l", "i", "n", "k">>,
      <<"s", "u", "r", "p", "r", "i", "s", "e", "d">>,
      <<"l", "a", "u", "g", "h">>,
      <<"a", "n", "g", "r", "y">>,
      <<"A", "n", "g", "r", "y">> }

AvatarIdInputs ==
    { Nil, <<>>, <<"a", "s", "s", "i", "s", "t", "a", "n", "t">>, <<"l", "o", "c", "a", "l">>,
      <<"L", "o", "c", "a", "l">>, <<"r", "e", "m", "o", "t", "e">> }

\* Calls with a preset of their own; calls of other types; calls whose
\* preset is missing or empty and that may name it elsewhere.
AvatarCalls ==
    { Call("setExpression", preset, Nil, Nil, Nil, avatar_id) :
         preset \in PresetInputs, avatar_id \in AvatarIdInputs }
    \cup { Call(type, preset, Nil, Nil, Nil, avatar_id) :
             type \in AvatarTypes,
             preset \in {Nil, <<"H", "a", "p", "p", "y">>, <<"a", "n", "g", "r", "y">>},
             avatar_id \in {Nil, <<"r", "e", "m", "o", "t", "e">>} }
    \cup { Call("setExpression", preset, expression, ctx_preset, ctx_expression, avatar_id) :
             preset \in {Nil, <<>>},
             expression \in {Nil, <<"W", "i", "n", "k">>},
             ctx_preset \in {Nil, <<"l", "a", "u", "g", "h">>},
             ctx_expression \in {Nil, <<"S", "A", "D">>},
             avatar_id \in {Nil, <<"l", "o", "c", "a", "l">>} }

\* The avatar tool: during the first persona's turn the language model
\* calls avatar_tool, with the frontend in the room.
NextAvatar ==
    \E self \in active, call \in AvatarCalls, ok \in BOOLEAN : AvatarTool(self, call, ok)

SpecAvatar == InitTakes /\ [][NextAvatar]_vars

\* The names the language model hands the turn to in the whole session: the
\* user, the personas of the roster, nobody.
SessionSpeakers == RosterNames \cup {UserName, <<"B", "o", "b">>}

\* A transcript of the debate: the topic, and a reply of each persona.
Exchange ==
    << Msg("user", UserName, "cats"),
       Msg("assistant", Roster[1].name, "reply"),
       Msg("assistant", Roster[2].name, "reply") >>

\* The avatar calls of the whole session: one that is sent, one that is
\* dropped.
SessionCalls ==
    { Call("setExpression", <<"H", "a", "p", "p", "y">>, Nil, Nil, Nil, Nil),
      Call("setPose", Nil, Nil, Nil, Nil, Nil) }

\* A research task whose race is decided, in the middle of the debate: the
\* first do_search task returned JSON, the others were cancelled, and
\* PROCESSING_DATA is to be reported.
InitCompleting ==
    /\ hot_takes = <<>>
    /\ research_results = <<>>
    /\ history = Exchange
    /\ personas = Roster
    /\ \E self \in PersonaIds :
          /\ researching_agents = {self}
          /\ research = [NoResearch EXCEPT !.pc = "processing", !.self = self,
                                           !.response = 1,
                                           !.published = <<"searching">>]
          /\ active = {self}
          /\ instructions =
                [p \in PersonaIds |->
                    IF p = self THEN BuildInstructions(p, Roster, <<>>, {}, <<>>)
                    ELSE NoInstructions]
          /\ chat_ctx = ReformatHistory(PersonaOf(self).name, Exchange)
    /\ first = FALSE
    /\ enter_pc = "idle"
    /\ decisions = 0
    /\ prompt_tasks = 0
    /\ playing = 0
    /\ session_started = TRUE
    /\ first_done = TRUE
    /\ start_task = [state |-> "done", user_text |-> "cats"]
    /\ rpc_tasks = <<>>
    /\ attempts = [i \in Attempts |-> IF i = 1 THEN "json" ELSE "cancelled"]
    /\ room = Joined
    /\ tool_result = NoResult

\* The session from its start, or with a research task about to complete:
\* the bootstrap, the speakers' entries and next-speaker decisions, and what
\* runs beside them, the tools, the publish tasks and the completion of the
\* research task.
InitSession == Init \/ InitCompleting

NextSession ==
    \/ \E is_final \in BOOLEAN, transcript \in Transcripts :
          Quiet /\ UserInputTranscribed(is_final, transcript)
    \/ Quiet /\ StartWithTopic
    \/ \E self \in active : Quiet /\ OnEnter(self)
    \/ \E self \in active, speaker \in SessionSpeakers : Quiet /\ NextSpeaker(self, speaker)
    \/ \E self \in active, text \in SessionTakes : Quiet /\ AddHotTake(self, text)
    \/ \E self \in active, old_text \in SessionTakes, new_text \in SessionTakes :
          Quiet /\ ReplaceHotTake(self, old_text, new_text)
    \/ \E self \in active, text \in SessionTakes : Quiet /\ DeleteHotTake(self, text)
    \/ \E self \in active, emoji \in Emojis : Quiet /\ EmojiReaction(self, emoji)
    \/ \E self \in active, call \in SessionCalls, ok \in BOOLEAN :
          Quiet /\ AvatarTool(self, call, ok)
    \/ \E i \in DOMAIN rpc_tasks : RpcDelivered(i)
    \/ \E i \in DOMAIN rpc_tasks : RpcFailed(i)
    \/ \E ok \in BOOLEAN, image \in BOOLEAN : ReportProcessing(ok, image)
    \/ \E ok \in BOOLEAN : ReportDone(ok)
    \/ RefreshAfterResearch
    \/ \E ok \in BOOLEAN : ReportReturned(ok)

SpecSession == InitSession /\ [][NextSession]_vars

\* Names of nobody: a part of a name, a name with more letters, another
\* name, the empty string.
InvalidSpeakers ==
    { <<"R", "a", "v", "e">>, <<"R", "a", "v", "e", "n", "s">>, <<"L", "u">>,
      <<"B", "o", "b">>, <<>> }

\* The fallback: the bootstrap has just installed the first persona, or a
\* handoff has installed one of the personas, and the language model names
\* nobody whenever it calls give_turn_to_next_speaker.
InitFallback ==
    /\ hot_takes = <<>>
    /\ research_results = <<>>
    /\ researching_agents = {}
    /\ history = <<Msg("user", UserName, "cats")>>
    /\ personas = Roster
    /\ \E id \in PersonaIds, is_first \in BOOLEAN :
          /\ is_first => id = Roster[1].id
          /\ active = {id}
          /\ first = is_first
          /\ instructions =
                [p \in PersonaIds |->
                    IF p = id THEN BuildInstructions(p, Roster, <<>>, {}, <<>>)
                    ELSE NoInstructions]
    /\ enter_pc = "enter"
    /\ decisions = 0
    /\ prompt_tasks = 0
    /\ playing = 0
    /\ chat_ctx = <<>>
    /\ session_started = TRUE
    /\ first_done = TRUE
    /\ start_task = [state |-> "done", user_text |-> "cats"]
    /\ rpc_tasks = <<>>
    /\ attempts = NoAttempts
    /\ research = NoResearch
    /\ room = Joined
    /\ tool_result = NoResult

NextFallback ==
    \/ \E self \in active : Quiet /\ OnEnter(self)
    \/ \E self \in active : Quiet /\ DirectReply(self)
    \/ \E self \in active : Quiet /\ EnterDecision(self)
    \/ \E self \in active : Quiet /\ UserTurnCompleted(self)
    \/ \E self \in active, speaker \in InvalidSpeakers : Quiet /\ NextSpeaker(self, speaker)
    \/ \E i \in DOMAIN rpc_tasks : RpcDelivered(i)
    \/ \E i \in DOMAIN rpc_tasks : RpcFailed(i)

SpecFallback == InitFallback /\ [][NextFallback]_vars

\* At most MaxPending publish tasks are pending.
CanQueue == Len(rpc_tasks) < MaxPending

\* The notifications: during the first persona's turn the model calls the
\* hot-take tools while the publish tasks of earlier calls are still
\* pending or being retried.
NextNotify ==
    \/ \E self \in active, text \in SessionTakes : CanQueue /\ AddHotTake(self, text)
    \/ \E self \in active, old_text \in SessionTakes, new_text \in SessionTakes :
          CanQueue /\ ReplaceHotTake(self, old_text, new_text)
    \/ \E self \in active, text \in SessionTakes : CanQueue /\ DeleteHotTake(self, text)
    \/ \E i \in DOMAIN rpc_tasks : RpcDelivered(i)
    \/ \E i \in DOMAIN rpc_tasks : RpcFailed(i)

SpecNotify == InitTakes /\ [][NextNotify]_vars

\* The transcript: the turns of the session, and the items added while the
\* TopicCollectorAgent waits for the bootstrap to install the first persona.
NextStore ==
    \/ \E is_final \in BOOLEAN, transcript \in Transcripts :
          Quiet /\ UserInputTranscribed(is_final, transcript)
    \/ \E role \in {"user", "assistant"} : Quiet /\ CollectorItemAdded(role)
    \/ Quiet /\ StartWithTopic
    \/ \E self \in active : Quiet /\ OnEnter(self)
    \/ \E self \in active : Quiet /\ DirectReply(self)
    \/ \E self \in active : Quiet /\ EnterDecision(self)
    \/ \E self \in active : Quiet /\ UserTurnCompleted(self)
    \/ \E self \in active, speaker \in SessionSpeakers : Quiet /\ NextSpeaker(self, speaker)
    \/ Quiet /\ PlayoutFinished
    \/ Quiet /\ PromptUser
    \/ \E i \in DOMAIN rpc_tasks : RpcDelivered(i)
    \/ \E i \in DOMAIN rpc_tasks : RpcFailed(i)

SpecStore == Init /\ [][NextStore]_vars

----------------------------------------------------------------------------
\* Claims about the Hot Takes List, under SpecTakes.

LastCall(tool) == tool_result.tool = tool
Succeeded == tool_result.error = "none"

\* The step is the call the new tool result records.
Arg(i) == tool_result'.args[i]
IsAdd == tool_result'.tool = "add_hot_take"
           /\ \E self \in active : AddHotTake(self, Arg(1))
IsReplace == tool_result'.tool = "replace_hot_take"
               /\ \E self \in active : ReplaceHotTake(self, Arg(1), Arg(2))
IsDelete == tool_result'.tool = "delete_hot_take"
              /\ \E self \in active : DeleteHotTake(self, Arg(1))

\* C1: the Hot Takes List never holds more than MAX_HOT_TAKES entries,
\* whatever add, replace and delete calls were made.
C1_NeverOverCapacity == Len(hot_takes) <= MAX_HOT_TAKES

\* C1 witness: the list is full and a further add has just been refused.
C1_FullListReached ==
    /\ Len(hot_takes) = MAX_HOT_TAKES
    /\ LastCall("add_hot_take")
    /\ tool_result.error = CapacityExceeded

\* C2: the Hot Takes List never holds the same text twice.
C2_NoDuplicates ==
    \A i, j \in DOMAIN hot_takes : i # j => hot_takes[i] # hot_takes[j]

\* C3: an add of a text that is already in the list raises DuplicateTake and
\* leaves the list as it was.
C3_AddDuplicateFails ==
    [][(IsAdd /\ Contains(hot_takes, Arg(1))) =>
          /\ tool_result'.error = DuplicateTake
          /\ hot_takes' = hot_takes]_vars

\* C3 witness: add(x) was refused as a duplicate right after the list came
\* to hold x.
C3_DuplicateRefused ==
    /\ LastCall("add_hot_take")
    /\ tool_result.error = DuplicateTake
    /\ Contains(hot_takes, tool_result.args[1])

\* C4: an add of an absent text raises CapacityExceeded and changes nothing
\* when the list holds MAX_HOT_TAKES entries, and otherwise appends the text
\* as the last entry and returns.
C4_AddAbsent ==
    [][(IsAdd /\ ~Contains(hot_takes, Arg(1))) =>
          IF Len(hot_takes) = MAX_HOT_TAKES
          THEN /\ tool_result'.error = CapacityExceeded
               /\ hot_takes' = hot_takes
          ELSE /\ tool_result'.error = "none"
               /\ tool_result'.value = "Added"
               /\ Len(hot_takes') = Len(hot_takes) + 1
               /\ hot_takes'[Len(hot_takes')] = Arg(1)
               /\ \A i \in DOMAIN hot_takes : hot_takes'[i] = hot_takes[i]]_vars

\* C4 witness: a fifth, absent text was refused by a full list.
C4_FifthRefused ==
    /\ LastCall("add_hot_take")
    /\ tool_result.error = CapacityExceeded
    /\ Len(hot_takes) = MAX_HOT_TAKES
    /\ ~Contains(hot_takes, tool_result.args[1])

\* C5: a successful replace puts the new text at the position the old text
\* had and leaves the length and every other entry as they were.
C5_ReplaceKeepsPosition ==
    [][(IsReplace /\ Contains(hot_takes, Arg(1))) =>
          \E i \in DOMAIN hot_takes :
              /\ hot_takes[i] = Arg(1)
              /\ \A j \in 1..(i - 1) : hot_takes[j] # Arg(1)
              /\ Len(hot_takes') = Len(hot_takes)
              /\ hot_takes'[i] = Arg(2)
              /\ \A j \in DOMAIN hot_takes : j # i => hot_takes'[j] = hot_takes[j]]_vars

\* C5 witness: a text was replaced by another one at the head of a list of
\* several entries.
C5_ReplacedAtHead ==
    /\ LastCall("replace_hot_take")
    /\ Succeeded
    /\ tool_result.args[1] # tool_result.args[2]
    /\ Len(hot_takes) >= 3
    /\ hot_takes[1] = tool_result.args[2]
    /\ hot_takes[2] # tool_result.args[2]

\* C6: after a successful delete of x, an add of x succeeds: no occurrence
\* of x is left to block it as a duplicate.
C6_DeleteThenAdd ==
    (LastCall("delete_hot_take") /\ Succeeded) =>
        AddError(hot_takes, tool_result.args[1]) = "none"

\* C7: a replace of an absent old text and a delete of an absent text raise
\* TakeNotFound, leave the list as it was, rebuild no instructions and queue
\* no notification.
C7_NotFound ==
    [][((IsReplace \/ IsDelete) /\ ~Contains(hot_takes, Arg(1))) =>
          /\ tool_result'.error = TakeNotFound
          /\ UNCHANGED <<hot_takes, instructions, rpc_tasks>>]_vars

\* C7 witness: a text that the non-empty list does not hold was not found.
C7_AbsentNotFound ==
    /\ tool_result.error = TakeNotFound
    /\ hot_takes # <<>>
    /\ ~Contains(hot_takes, tool_result.args[1])
    /\ rpc_tasks = <<>>

\* C8: a successful add, replace or delete leaves every active persona with
\* instructions whose hot-takes section is the new list, and queues exactly
\* one hot_takes_updated notification.
C8_RefreshAndNotify ==
    [][((IsAdd \/ IsReplace \/ IsDelete) /\ tool_result'.error = "none") =>
          /\ \A p \in active' :
                instructions'[p].hot_takes = HotTakesToPrompt(hot_takes')
          /\ Len(rpc_tasks') = Len(rpc_tasks) + 1
          /\ rpc_tasks'[Len(rpc_tasks')].method = "hot_takes_updated"
          /\ \A i \in DOMAIN rpc_tasks : rpc_tasks'[i] = rpc_tasks[i]]_vars

\* C8 witness: a mutation has just succeeded, its notification is queued and
\* the active persona's instructions list the takes.
C8_MutationNotified ==
    /\ Succeeded
    /\ tool_result.tool \in {"add_hot_take", "replace_hot_take", "delete_hot_take"}
    /\ Len(hot_takes) >= 2
    /\ Len(rpc_tasks) = 1
    /\ rpc_tasks[1].method = "hot_takes_updated"
    /\ \A p \in active : instructions[p].hot_takes.lines =
                            [i \in DOMAIN hot_takes |-> <<"- ", hot_takes[i]>>]

----------------------------------------------------------------------------
\* Claims about turn taking, under Spec.

\* Bootstrap: no roster has been produced and no speaker installed yet.
Bootstrap == start_task.state # "done"

\* C9: at most one persona is the active speaker, and none is during
\* Bootstrap, whatever user turns, next-speaker decisions, hot-take calls
\* and publish tasks have run.
C9_OneActiveSpeaker ==
    /\ Cardinality(active) <= 1
    /\ Bootstrap => active = {}

\* C9 witness: the turn has passed from the first persona to the second
\* one, which has changed the hot takes while a publish task is pending.
C9_SecondSpeakerActive ==
    /\ active = {Roster[2].id}
    /\ hot_takes # <<>>
    /\ rpc_tasks # <<>>
    /\ Len(history) >= 2

\* Equality of two names up to the case of their letters, letter by letter.
CasePairs ==
    { <<"A", "a">>, <<"B", "b">>, <<"D", "d">>, <<"E", "e">>, <<"F", "f">>,
      <<"H", "h">>, <<"I", "i">>, <<"L", "l">>, <<"M", "m">>, <<"N", "n">>,
      <<"O", "o">>, <<"R", "r">>, <<"S", "s">>, <<"U", "u">>, <<"V", "v">>,
      <<"W", "w">> }

SameIgnoringCase(a, b) ==
    /\ Len(a) = Len(b)
    /\ \A i \in DOMAIN a :
          \/ a[i] = b[i]
          \/ <<a[i], b[i]>> \in CasePairs
          \/ <<b[i], a[i]>> \in CasePairs

IsNextSpeaker(speaker) ==
    /\ tool_result'.tool = "give_turn_to_next_speaker"
    /\ \E self \in active : NextSpeaker(self, speaker)

\* C10: a next-speaker decision naming a value that is not "user" and that
\* equals a roster persona's stored name up to letter case makes that
\* persona the active speaker; a value that equals no stored name in full
\* (a part of a name, a name with more letters) installs nobody.
C10_CaseInsensitiveExactMatch ==
    [][\A speaker \in SpeakerInputs :
          (IsNextSpeaker(speaker) /\ ~SameIgnoringCase(speaker, UserName)) =>
              /\ \A i \in DOMAIN Roster :
                    SameIgnoringCase(speaker, Roster[i].name) =>
                        active' = {Roster[i].id}
              /\ (\A i \in DOMAIN Roster : ~SameIgnoringCase(speaker, Roster[i].name)) =>
                    /\ active' = active
                    /\ tool_result'.value = "None"]_vars

\* C10 witness: the first persona has handed the turn to the second one.
C10_HandedOver ==
    /\ active = {Roster[2].id}
    /\ tool_result = Returned("give_turn_to_next_speaker", <<>>, "DebateAgent")
    /\ ~first
    /\ enter_pc = "enter"

\* The step is a next-speaker decision naming nobody: neither "user" nor a
\* roster persona, up to letter case.
IsUnknownSpeaker(speaker) ==
    /\ ~SameIgnoringCase(speaker, UserName)
    /\ \A i \in DOMAIN Roster : ~SameIgnoringCase(speaker, Roster[i].name)
    /\ IsNextSpeaker(speaker)

\* The step adds the prompting utterance to the transcript.
PromptSpoken ==
    /\ Len(history') = Len(history) + 1
    /\ history'[Len(history')].content = "What do you think?"

\* C11: a next-speaker decision naming "user" in any letter case installs
\* no new persona (the speaker that yields stays the session's agent, which
\* is what the program has of AwaitingUser), says nothing by itself and
\* schedules exactly one prompting task, which waits for the playout; the
\* prompt "What do you think?" is spoken only by a task whose wait for the
\* playout has ended, once per task.
C11_YieldToUser ==
    [][/\ \A speaker \in SpeakerInputs :
             (SameIgnoringCase(speaker, UserName) /\ IsNextSpeaker(speaker)) =>
                 /\ UNCHANGED <<active, first, instructions, enter_pc, chat_ctx,
                                personas, history>>
                 /\ prompt_tasks' = prompt_tasks + 1
                 /\ playing' = playing + 1
                 /\ tool_result'.error = "none"
                 /\ tool_result'.value = "None"
       /\ PromptSpoken =>
             /\ prompt_tasks > playing
             /\ prompt_tasks' = prompt_tasks - 1
             /\ playing' = playing
             /\ active' = active]_vars

\* C11 witness: the second persona has yielded to the user and its prompt
\* has been spoken after the playout.
C11_UserPrompted ==
    /\ active = {Roster[2].id}
    /\ tool_result = Returned("give_turn_to_next_speaker", <<>>, "None")
    /\ prompt_tasks = 0
    /\ playing = 0
    /\ history[Len(history)] = Msg("assistant", Roster[2].name, "What do you think?")

\* C12: a next-speaker decision naming neither "user" nor a roster persona
\* returns without an error and leaves the active speaker, its instance and
\* the prompting tasks as they were; some persona is still active.
C12_UnknownSpeakerStays ==
    [][\A speaker \in SpeakerInputs :
          IsUnknownSpeaker(speaker) =>
              /\ UNCHANGED <<active, first, instructions, enter_pc, chat_ctx,
                             prompt_tasks, playing>>
              /\ tool_result'.error = "none"
              /\ Cardinality(active') = 1]_vars

\* C12 witness: the second persona is still active after a decision that
\* returned nothing and scheduled no prompt.
C12_StayedAfterUnknown ==
    /\ active = {Roster[2].id}
    /\ tool_result = Returned("give_turn_to_next_speaker", <<>>, "None")
    /\ prompt_tasks = 0
    /\ enter_pc = "idle"
    /\ \A i \in DOMAIN history : history[i].content # "What do you think?"

\* C13: a user turn completed while a persona is active adds exactly one
\* forced next-speaker decision request, made of the instance that is the
\* session's agent at that moment, and leaves the active speaker and its
\* instance as they were.
C13_UserTurnForcesDecision ==
    [][\A self \in active :
          UserTurnCompleted(self) =>
              /\ decisions' = decisions + 1
              /\ active = {self}
              /\ UNCHANGED <<active, first, instructions, enter_pc, chat_ctx>>]_vars

\* C13 witness: the user has finished a turn while the second persona was
\* active, and the decision asked of it is in flight.
C13_DecisionAsked ==
    /\ active = {Roster[2].id}
    /\ decisions = 1
    /\ history[Len(history)] = Msg("user", UserName, "turn")

\* The reply on_enter generates, as the transcript holds it.
EntryReply == Msg("assistant", PersonaOf(CHOOSE id \in active : TRUE).name, "reply")

\* The steps of on_enter: what it does on entry, the reply, the request.
EntryInOrder ==
    /\ (enter_pc = "enter" /\ enter_pc' # "enter") =>
          /\ enter_pc' = IF HasUserMessage(history) THEN "reply" ELSE "idle"
          /\ UNCHANGED <<decisions, history>>
    /\ (enter_pc # "decide" /\ enter_pc' = "decide") =>
          /\ enter_pc = "reply"
          /\ history' = Append(history, EntryReply)
          /\ UNCHANGED decisions
    /\ (enter_pc = "decide" /\ enter_pc' = "idle") =>
          /\ decisions' = decisions + 1
          /\ Contains(history, EntryReply)

\* C14: on entry, a persona that finds a user message in the transcript
\* replies, and only when the reply is in the transcript asks for the next
\* speaker; a persona that finds no user message neither replies nor asks,
\* and while the transcript holds no user message no reply and no decision
\* request exists.
C14_ReplyBeforeDecision ==
    /\ [][EntryInOrder]_vars
    /\ [](~HasUserMessage(history) =>
             /\ decisions = 0
             /\ enter_pc \in {"none", "enter", "idle"}
             /\ history = <<>>)

\* C14 witness: the first persona has replied to the opening message and
\* then asked for the next speaker.
C14_RepliedThenAsked ==
    /\ active = {Roster[1].id}
    /\ enter_pc = "idle"
    /\ decisions = 1
    /\ history = <<Msg("user", UserName, "cats"), Msg("assistant", Roster[1].name, "reply")>>

\* C15: with no topic in the job metadata, the debate starts once, from the
\* first final utterance: a transcript that is not final or that comes after
\* the first final one starts nothing, a started debate is never started
\* again, and the start makes the first persona of the roster the active
\* speaker.
C15_BootstrapOnce ==
    [][session_started =>
          /\ \A is_final \in BOOLEAN, transcript \in Transcripts :
                (UserInputTranscribed(is_final, transcript) /\ (first_done \/ ~is_final)) =>
                    UNCHANGED <<first_done, start_task, personas, active>>
          /\ (start_task.state = "none" /\ start_task'.state # "none") =>
                /\ ~first_done
                /\ first_done'
                /\ start_task'.state = "created"
          /\ first_done => (first_done' /\ start_task'.user_text = start_task.user_text)
          /\ start_task.state = "done" => start_task'.state = "done"
          /\ (start_task.state # "done" /\ start_task'.state = "done") =>
                /\ active = {}
                /\ active' = {Roster[1].id}
                /\ personas' = Roster
                /\ first']_vars

\* C15 witness: the debate was started from the first final utterance, the
\* turn has since passed to the second persona, and the roster is the one
\* of the start.
C15_StartedOnce ==
    /\ session_started
    /\ first_done
    /\ start_task = [state |-> "done", user_text |-> "cats"]
    /\ personas = Roster
    /\ active = {Roster[2].id}
    /\ history[1] = Msg("user", UserName, "cats")

----------------------------------------------------------------------------
\* Claims about the view of the transcript, under SpecView.

\* The step is on_enter giving the entering persona its chat context.
Entered == enter_pc = "enter" /\ enter_pc' # "enter"

Me == PersonaOf(CHOOSE id \in active : TRUE).name

\* C16: in the chat context on_enter gives persona A, every message whose
\* stored speaker label is A's name has the role assistant and the stored
\* content, nothing added.
C16_OwnMessagesUntouched ==
    [][Entered =>
          /\ Len(chat_ctx') = Len(history)
          /\ \A i \in DOMAIN history :
                history[i].speaker = Me =>
                    /\ chat_ctx'[i].role = "assistant"
                    /\ chat_ctx'[i].content = <<history[i].content>>]_vars

\* C16 witness: the second persona has entered over a transcript that holds
\* a message of its own after one of the first persona.
C16_OwnMessageSeen ==
    /\ active = {Roster[2].id}
    /\ enter_pc # "enter"
    /\ Len(chat_ctx) = 3
    /\ history[2].speaker = Roster[1].name
    /\ history[3] = Msg("assistant", Roster[2].name, "reply")
    /\ chat_ctx[3].content = <<"reply">>

\* C17 as stated: every message not authored by B has the role user and
\* the content "{speakerLabel} says: {content}".
C17_SaysColon ==
    [][Entered =>
          \A i \in DOMAIN history :
              history[i].speaker # Me =>
                  /\ chat_ctx'[i].role = "user"
                  /\ chat_ctx'[i].content =
                        history[i].speaker \o <<" says: ", history[i].content>>]_vars

\* C17 amended: every message not authored by B (the user's, every other
\* persona's) has the role user and the content "*{speakerLabel} says*
\* {content}", built from the stored speaker label and stored content.
C17_StarSays ==
    [][Entered =>
          \A i \in DOMAIN history :
              history[i].speaker # Me =>
                  /\ chat_ctx'[i].role = "user"
                  /\ chat_ctx'[i].speaker = history[i].speaker
                  /\ chat_ctx'[i].content =
                        <<"*">> \o history[i].speaker
                                \o <<" says* ", history[i].content>>]_vars

\* C17 witness: the first persona has entered over a transcript that holds
\* the user's topic and a reply of the second persona.
C17_OthersAttributed ==
    /\ active = {Roster[1].id}
    /\ enter_pc # "enter"
    /\ Len(chat_ctx) >= 2
    /\ history[2] = Msg("assistant", Roster[2].name, "reply")
    /\ chat_ctx[1].role = "user"
    /\ chat_ctx[2].role = "user"

\* The texts the program stores as contents.
StoredContents == {"cats", "User provided no topic", "turn", "reply", "What do you think?"}

\* C18: on_enter's reformatting leaves the transcript as it was (roles,
\* speaker labels and contents), and after any number of handoffs a stored
\* content is a text as it was produced and a content of the chat context
\* carries at most one attribution.
C18_StoreUntouched ==
    /\ [][Entered => history' = history]_vars
    /\ [](\A i \in DOMAIN history : history[i].content \in StoredContents)
    /\ [](\A i \in DOMAIN chat_ctx :
             \/ chat_ctx[i].content = <<history[i].content>>
             \/ chat_ctx[i].content =
                   <<"*">> \o history[i].speaker \o <<" says* ", history[i].content>>)

\* C18 witness: after a further handoff the first persona has entered over
\* a transcript that another entry had reformatted before.
C18_EnteredAgain ==
    /\ active = {Roster[1].id}
    /\ enter_pc # "enter"
    /\ tool_result = Returned("give_turn_to_next_speaker", <<>>, "DebateAgent")
    /\ Len(history) = MaxStore
    /\ Len(chat_ctx) = MaxStore
    /\ history[2].speaker = Roster[2].name

----------------------------------------------------------------------------
\* Claims about the research task, under SpecResearch.

\* The step is research_agent taking the outcome of its race.
Decided == research.pc = "waiting" /\ research'.pc # "waiting"

\* C19: the race resolves with the response of an attempt that returned,
\* an attempt that raised decides it only when all three have raised, and
\* no attempt is left running once it is resolved.
C19_FirstSuccessWins ==
    [][Decided =>
          /\ research'.pc = "error" => \A i \in Attempts : attempts[i] = "raised"
          /\ research'.pc = "processing" =>
                attempts[research'.response] \in {"json", "text"}
          /\ \A i \in Attempts : attempts'[i] # "running"]_vars

\* C20: research_results is written by one step of a research task only,
\* the handling of DONE, with the data of the attempt whose response
\* research_agent took; before that step and after it the task writes
\* nothing, whichever attempts returned, raised or were cancelled.
C20_SingleWrite ==
    [][/\ research_results' # research_results =>
             /\ research.pc = "done"
             /\ research'.pc = "refresh"
             /\ research.self \notin DOMAIN research_results
             /\ DOMAIN research_results' = {research.self}
             /\ attempts[research.response] \in {"json", "text"}
             /\ research_results'[research.self].take =
                   IF attempts[research.response] = "json"
                   THEN <<research.response>> ELSE <<>>
       /\ research.pc \in {"refresh", "returning", "finished", "failed"} =>
             research_results' = research_results]_vars

\* C20 witness: the task has finished with the second attempt's finding in
\* the table, while the third attempt had returned too and the first was
\* cancelled.
C20_WinnerStored ==
    /\ research.pc = "finished"
    /\ attempts = <<"cancelled", "json", "json">>
    /\ research.self \in DOMAIN research_results
    /\ research_results[research.self].take = <<2>>

\* How often the task has published the event named.
Count(published, method) ==
    Cardinality({i \in DOMAIN published : published[i] = method})

\* The task is over: it has returned, or an exception has left it.
Over == research.pc \in {"finished", "failed"}

\* C21: a research task whose three attempts have all raised and that has
\* reported its ERROR event ends with that one error event and no entry in
\* research_results, and no exception leaves the task.
C21_ErrorContained ==
    (/\ Over
     /\ \A i \in Attempts : attempts[i] = "raised"
     /\ Contains(research.published, "error")) =>
        /\ Count(research.published, "error") = 1
        /\ research.self \notin DOMAIN research_results
        /\ research.raised = "none"

\* The task awaits the outcome of its research.
Outstanding == research.pc \in {"searching", "waiting", "processing", "done", "error"}

\* The step builds the instructions of persona q.
Built(q) == instructions'[q] # instructions[q] /\ instructions'[q].built

\* The instructions a step builds for a persona list nobody who is in
\* researching_agents, the persona itself apart.
AwayUnlisted ==
    \A q \in PersonaIds :
        Built(q) =>
            \A p \in researching_agents \ {q} :
                ~Contains(instructions'[q].other_personas, PersonaOf(p).name)

C23_CompletionRecorded ==
    (Over /\ Contains(research.published, "processing_data")) =>
        /\ research.self \in DOMAIN research_results
        /\ research.self \notin researching_agents

\* C24: instructions built for a persona that has an entry in
\* research_results show the stored take and explanation, those built for
\* a persona without an entry show no findings, and no step that builds
\* instructions changes research_results.
C24_FindingsShownAndKept ==
    [][\A q \in PersonaIds :
          Built(q) =>
              /\ research_results' = research_results
              /\ instructions'[q].findings =
                    IF q \in DOMAIN research_results
                    THEN [present |-> TRUE,
                          take |-> research_results[q].take,
                          explanation |-> research_results[q].explanation]
                    ELSE [present |-> FALSE]]_vars

\* C24 witness: after its research has finished the second persona was
\* handed the turn again, and the instructions of its new instance show
\* the finding, which is still in the table.
C24_FindingsAfterReturn ==
    /\ research.pc = "finished"
    /\ research.self = Roster[2].id
    /\ active = {Roster[2].id}
    /\ tool_result = Returned("give_turn_to_next_speaker", <<>>, "DebateAgent")
    /\ enter_pc = "enter"
    /\ instructions[Roster[2].id].findings.present
    /\ instructions[Roster[2].id].findings.take = research_results[Roster[2].id].take
    /\ research_results[Roster[2].id].take # <<>>

----------------------------------------------------------------------------
\* Claims about the gateway, under SpecGateway.

\* What a step may do to the pending _send_rpc calls: start new ones, end
\* one, or count one more raised perform_rpc of one, which takes somebody
\* to call; an exception reaches a tool from a call that was at its last
\* attempt only.
RetryStep ==
    /\ Len(rpc_tasks') > Len(rpc_tasks) =>
          /\ \A i \in DOMAIN rpc_tasks : rpc_tasks'[i] = rpc_tasks[i]
          /\ \A i \in DOMAIN rpc_tasks' \ DOMAIN rpc_tasks : rpc_tasks'[i].attempts = 0
    /\ Len(rpc_tasks') < Len(rpc_tasks) =>
          \E i \in DOMAIN rpc_tasks : rpc_tasks' = Without(rpc_tasks, i)
    /\ (Len(rpc_tasks') = Len(rpc_tasks) /\ rpc_tasks' # rpc_tasks) =>
          /\ Endpoint
          /\ \E i \in DOMAIN rpc_tasks :
                rpc_tasks' = [rpc_tasks EXCEPT ![i].attempts = @ + 1]
    /\ (tool_result' # tool_result /\ tool_result'.error = RpcError) =>
          /\ Endpoint
          /\ \E i \in DOMAIN rpc_tasks :
                /\ rpc_tasks[i].attempts = RPC_ATTEMPTS - 1
                /\ rpc_tasks' = Without(rpc_tasks, i)

\* C25: a _send_rpc call whose perform_rpc raises is tried again until it
\* has made RPC_ATTEMPTS attempts: a pending call has fewer than
\* RPC_ATTEMPTS failed attempts behind it, a call that has returned is gone
\* and makes no further attempt, and every pending call ends.
C25_BoundedRetry ==
    /\ [][RetryStep]_vars
    /\ [](\A i \in DOMAIN rpc_tasks : rpc_tasks[i].attempts \in 0..(RPC_ATTEMPTS - 1))
    /\ (rpc_tasks # <<>>) ~> (rpc_tasks = <<>>)

\* C25 witness: with the frontend attached, an emoji_reaction publish was
\* given up after its last attempt had raised.
C25_GivenUpAfterThree ==
    /\ room.remote_participants
    /\ tool_result.tool = "emoji_reaction"
    /\ tool_result.error = RpcError
    /\ rpc_tasks = <<>>

\* What ends a pending _send_rpc call while there is nobody to call: the
\* call returns, having changed nothing of the room and counted no failed
\* attempt; a tool that awaited it returns None.
NoEndpointStep ==
    (~Endpoint /\ rpc_tasks' # rpc_tasks /\ Len(rpc_tasks') <= Len(rpc_tasks)) =>
        /\ room' = room
        /\ \E i \in DOMAIN rpc_tasks :
              /\ rpc_tasks' = Without(rpc_tasks, i)
              /\ tool_result' =
                    IF rpc_tasks[i].awaited
                    THEN Returned(rpc_tasks[i].method, <<rpc_tasks[i].payload>>, "None")
                    ELSE tool_result

\* C26: a _send_rpc attempt made while the session has no room I/O or the
\* room has no remote participant returns at once: the call is over, no
\* perform_rpc was made for it, no failed attempt is counted and retried,
\* and nothing is raised.
C26_NoEndpointNoOp ==
    /\ [][NoEndpointStep]_vars
    /\ [][(tool_result' # tool_result /\ tool_result'.error = RpcError) => Endpoint]_vars

\* C26 witness: with nobody in the room, the emoji_reaction tool has
\* returned from its publish.
C26_ReturnedWithNobody ==
    /\ ~room.remote_participants
    /\ tool_result =
          Returned("emoji_reaction", <<[emoji |-> "fire", speaker_id |-> Roster[1].id]>>, "None")
    /\ rpc_tasks = <<>>
    /\ enter_pc = "enter"

\* C27: a publish given up after its last attempt does not fail the tool
\* that issued it: an emoji_reaction call always returns.
C27_GivenUpSilently ==
    tool_result.tool = "emoji_reaction" => tool_result.error = "none"

\* The step completes an operation that publishes: on_enter has passed its
\* publishes, or a publishing tool has returned.
PublisherCompletes ==
    \/ Entered
    \/ /\ tool_result' # tool_result
       /\ tool_result'.error = "none"
       /\ tool_result'.tool \in {"add_hot_take", "replace_hot_take",
                                 "delete_hot_take", "emoji_reaction"}

\* C28: with the frontend attached, an operation that publishes completes
\* with its publish left to a pending call that has made no attempt yet;
\* its completion is never the step that ends a publish.
C28_FireAndForget ==
    [][(Endpoint /\ PublisherCompletes) =>
          /\ Len(rpc_tasks') > Len(rpc_tasks)
          /\ \A i \in DOMAIN rpc_tasks : rpc_tasks'[i] = rpc_tasks[i]
          /\ \A i \in DOMAIN rpc_tasks' \ DOMAIN rpc_tasks :
                rpc_tasks'[i].attempts = 0]_vars

----------------------------------------------------------------------------
\* Claims about the avatar tool, under SpecAvatar.

\* The allow-lists and the synonyms as the specification states them.
ExpressionsOfSpec ==
    { <<"s", "m", "i", "l", "e">>,
      <<"s", "u", "r", "p", "r", "i", "s", "e", "d">>,
      <<"c", "o", "n", "c", "e", "r", "n", "e", "d">>,
      <<"w", "i", "n", "k">>, <<"l", "a", "u", "g", "h">> }

AvatarIdsOfSpec == {<<"a", "s", "s", "i", "s", "t", "a", "n", "t">>, <<"l", "o", "c", "a", "l">>}

SynonymsOfSpec ==
    { <<<<"h", "a", "p", "p", "y">>, <<"s", "m", "i", "l", "e">>>>,
      <<<<"s", "e", "r", "i", "o", "u", "s">>, <<"c", "o", "n", "c", "e", "r", "n", "e", "d">>>>,
      <<<<"s", "a", "d">>, <<"c", "o", "n", "c", "e", "r", "n", "e", "d">>>>,
      <<<<"f", "r", "o", "w", "n">>, <<"c", "o", "n", "c", "e", "r", "n", "e", "d">>>>,
      <<<<"b", "l", "i", "n", "k">>, <<"w", "i", "n", "k">>>>,
      <<<<"w", "i", "n", "k", "i", "n", "g">>, <<"w", "i", "n", "k">>>> }

\* The preset, letter case apart, is the expression e or a synonym of it.
Lands(preset, e) ==
    \/ SameIgnoringCase(preset, e)
    \/ \E pair \in SynonymsOfSpec : SameIgnoringCase(preset, pair[1]) /\ pair[2] = e

\* The step is the avatar_tool call the new tool result records.
IsAvatar ==
    /\ tool_result'.tool = "avatar_tool"
    /\ \E self \in active, ok \in BOOLEAN : AvatarTool(self, Arg(1), ok)

\* What the frontend is sent for expression e and the avatar named.
Animation(e, avatar_id) ==
    [kind |-> "avatar-tool",
     call |-> IF avatar_id = Nil
              THEN [type |-> "setExpression", preset |-> e]
              ELSE [type |-> "setExpression", preset |-> e,
                    context |-> [avatarId |-> avatar_id]]]

\* C29: a call of type setExpression whose preset, letter case apart, is
\* an allowed expression or a synonym of one, and whose avatarId is absent
\* or allowed, is handed to publish_data with the expression in the place
\* of the preset and the avatarId as given, and is not skipped.
C29_NormalizedPublish ==
    [][IsAvatar =>
          \A e \in ExpressionsOfSpec :
              (/\ Arg(1).type = "setExpression"
               /\ Lands(Arg(1).preset, e)
               /\ Arg(1).context.avatarId \in {Nil} \cup AvatarIdsOfSpec) =>
                  /\ room'.data = Animation(e, Arg(1).context.avatarId)
                  /\ tool_result'.value.status \in {"sent", "error"}]_vars

\* C29 witness: preset "Happy" for the avatar "assistant" was sent as
\* "smile" for "assistant".
C29_HappySentAsSmile ==
    /\ tool_result =
          Returned("avatar_tool",
                   <<Call("setExpression", <<"H", "a", "p", "p", "y">>, Nil, Nil, Nil,
                          <<"a", "s", "s", "i", "s", "t", "a", "n", "t">>)>>,
                   [status |-> "sent"])
    /\ room.data =
          [kind |-> "avatar-tool",
           call |-> [type |-> "setExpression", preset |-> <<"s", "m", "i", "l", "e">>,
                     context |-> [avatarId |-> <<"a", "s", "s", "i", "s", "t", "a", "n", "t">>]]]

\* The call was dropped: nothing was handed to publish_data and the tool
\* returned the reason.
Dropped(reason) ==
    /\ room' = room
    /\ tool_result'.value = [status |-> "skipped", reason |-> reason]

\* What the claim has a call dropped for, the preset of the call being
\* preset: the first of the reasons that applies, Nil where none does.
ReasonToDrop(call, preset) ==
    IF Strip(call.type) # "setExpression"
    THEN <<"unsupported-type:", Strip(call.type)>>
    ELSE IF ~Truthy(preset) THEN <<"missing-preset">>
    ELSE IF \A e \in ExpressionsOfSpec : ~Lands(preset, e)
    THEN <<"unsupported-preset:">> \o Lower(preset)
    ELSE IF Truthy(call.context.avatarId) /\ call.context.avatarId \notin AvatarIdsOfSpec
    THEN <<"unsupported-avatar:">> \o call.context.avatarId
    ELSE Nil

\* C30 as stated: a call of another type, without a preset, with a preset
\* outside the allow-list or with an avatarId outside it is dropped, with
\* the reason returned.
C30_DroppedWithReason ==
    [][(IsAvatar /\ ReasonToDrop(Arg(1), Arg(1).preset) # Nil) =>
          Dropped(ReasonToDrop(Arg(1), Arg(1).preset))]_vars

\* The preset a call names: as preset, else as expression, else as preset
\* or expression of its context.
NamedPreset(call) ==
    IF Truthy(call.preset) THEN call.preset
    ELSE IF Truthy(call.expression) THEN call.expression
    ELSE IF Truthy(call.context.preset) THEN call.context.preset
    ELSE call.context.expression

\* C30 amended: a call of another type, a call that names no preset (not
\* as preset, not as expression, not in its context), a call naming a
\* preset outside the allow-list after normalization, or a call with an
\* avatarId outside {assistant, local} is dropped: nothing is published and
\* the reason is returned.
C30_DroppedUnlessNamed ==
    [][(IsAvatar /\ ReasonToDrop(Arg(1), NamedPreset(Arg(1))) # Nil) =>
          Dropped(ReasonToDrop(Arg(1), NamedPreset(Arg(1))))]_vars

\* C30 witness: after a call that was sent, preset "angry" was dropped as
\* unsupported, and what was sent before is the last thing sent.
C30_AngryDropped ==
    /\ tool_result =
          Returned("avatar_tool",
                   <<Call("setExpression", <<"A", "n", "g", "r", "y">>, Nil, Nil, Nil, Nil)>>,
                   [status |-> "skipped",
                    reason |-> <<"unsupported-preset:", "a", "n", "g", "r", "y">>])
    /\ room.data # NoData

----------------------------------------------------------------------------
\* Claims about the whole session, under SpecSession.

\* The step is a turn transition: the bootstrap start, or a next-speaker
\* decision that resolves.
BootstrapStart == start_task.state = "created" /\ start_task'.state = "done"

DecisionResolved == \E self \in active, speaker \in SessionSpeakers : NextSpeaker(self, speaker)

\* The step is a call of a tool other than give_turn_to_next_speaker, an
\* attempt of a publish task, or a step of the research task.
BesideTheTurn ==
    \/ tool_result' # tool_result /\ tool_result'.tool # "give_turn_to_next_speaker"
    \/ hot_takes' # hot_takes
    \/ room' # room
    \/ \E i \in DOMAIN rpc_tasks : RpcDelivered(i) \/ RpcFailed(i)
    \/ \E self \in active, emoji \in Emojis : EmojiReaction(self, emoji)
    \/ research' # research

\* C33: the active speaker changes only in a step that is a turn transition;
\* the hot-take tools, the emoji reaction, the avatar tool, the publish
\* tasks and the completion of a research task leave it as it was.
C33_OnlyTransitionsChangeSpeaker ==
    [][/\ active' # active => (BootstrapStart \/ DecisionResolved)
       /\ BesideTheTurn => active' = active]_vars

\* C33 witness: the first persona researched, changed the hot takes and
\* animated the avatar and handed over; its research has completed and the
\* second persona, having reacted with an emoji, holds the turn.
C33_SecondHoldsTurnAfterAll ==
    /\ active = {Roster[2].id}
    /\ research.self = Roster[1].id
    /\ research.pc = "finished"
    /\ hot_takes # <<>>
    /\ room.data # NoData
    /\ tool_result.tool = "emoji_reaction"

\* C40 as stated: a turn transition leaves the hot takes, the research
\* results, the researching set and the transcript as they were.
C40_TransitionsKeepArtifacts ==
    [][(BootstrapStart \/ DecisionResolved) =>
          UNCHANGED <<hot_takes, research_results, researching_agents, history>>]_vars

\* C40 amended: a turn transition leaves the hot takes, the research
\* results and the researching set as they were and changes no message of
\* the transcript; the bootstrap start from the user's first utterance
\* appends that utterance as a user message, and no other transition
\* touches the transcript.
C40_TransitionsKeepArtifactsButTopic ==
    [][(BootstrapStart \/ DecisionResolved) =>
          /\ UNCHANGED <<hot_takes, research_results, researching_agents>>
          /\ history' = IF BootstrapStart /\ start_task.user_text # NoText
                        THEN Append(history, Msg("user", UserName, start_task.user_text))
                        ELSE history]_vars

\* C40 witness: a persona whose findings are stored and whose hot take is
\* listed has handed the turn to the second persona.
C40_HandedOverWithArtifacts ==
    /\ tool_result = Returned("give_turn_to_next_speaker", <<>>, "DebateAgent")
    /\ active = {Roster[2].id}
    /\ enter_pc = "enter"
    /\ hot_takes # <<>>
    /\ research.self \in DOMAIN research_results
    /\ history # <<>>

\* The step is a handoff: a next-speaker decision that returns a new agent.
Handoff == DecisionResolved /\ tool_result'.value = "DebateAgent"

\* The instructions of persona q as the shared state of the session has
\* them built: the hot takes in their order, q's findings where the table
\* holds some, and the personas other than q that are not researching.
BuiltFromSession(q, ins) ==
    /\ ins.built
    /\ ins.persona_name = PersonaOf(q).name
    /\ ins.hot_takes.none_yet <=> hot_takes = <<>>
    /\ Len(ins.hot_takes.lines) = Len(hot_takes)
    /\ \A i \in DOMAIN hot_takes : ins.hot_takes.lines[i][2] = hot_takes[i]
    /\ ins.findings.present <=> q \in DOMAIN research_results
    /\ ins.findings.present => ins.findings.take = research_results[q].take
    /\ \A i \in DOMAIN Roster :
          Contains(ins.other_personas, Roster[i].name) <=>
              (Roster[i].id # q /\ Roster[i].id \notin researching_agents)

\* C34: a handoff installs an instance of the named persona whose
\* instructions are built from the hot takes, the research results and the
\* researching set of that moment, discards every instance there was and
\* carries no chat context over; the instance's entry then gives it a chat
\* context with one item for every message of the transcript.
C34_FreshInstanceOnHandoff ==
    [][/\ Handoff =>
             /\ \E q \in PersonaIds :
                   /\ active' = {q}
                   /\ BuiltFromSession(q, instructions'[q])
                   /\ \A p \in PersonaIds \ {q} : ~instructions'[p].built
             /\ chat_ctx' = <<>>
             /\ ~first'
             /\ enter_pc' = "enter"
       /\ Entered =>
             /\ Len(chat_ctx') = Len(history)
             /\ \A i \in DOMAIN history :
                   /\ chat_ctx'[i].content[Len(chat_ctx'[i].content)] = history[i].content
                   /\ chat_ctx'[i].role = "assistant" <=> history[i].speaker = Me]_vars

\* C34 witness: the second persona, still researching, added a hot take and
\* handed over to the first one, which has entered: its instructions list
\* the take and nobody but the user, and its context holds the three
\* messages of the transcript.
C34_BackWithNewTake ==
    /\ active = {Roster[1].id}
    /\ tool_result = Returned("give_turn_to_next_speaker", <<>>, "DebateAgent")
    /\ ~instructions[Roster[2].id].built
    /\ instructions[Roster[1].id].hot_takes.lines # <<>>
    /\ research.self = Roster[2].id
    /\ instructions[Roster[1].id].other_personas = <<UserName>>
    /\ enter_pc = "reply"
    /\ Len(chat_ctx) = 3

----------------------------------------------------------------------------
\* Claims about the unknown-speaker fallback, under SpecFallback, where
\* every call of give_turn_to_next_speaker names nobody.

\* The step is a fallback.
Fallback == \E self \in active, speaker \in InvalidSpeakers : NextSpeaker(self, speaker)

\* A fallback has happened.
FellBack == tool_result.tool = "give_turn_to_next_speaker"

\* The step requests a next-speaker decision.
Requested == decisions' > decisions

UserTurn == \E self \in active : UserTurnCompleted(self)

\* C35 as stated: the fallback requests no decision and keeps the persona,
\* and once a fallback has happened a decision is requested only by a user
\* turn that completes; the active speaker never changes.
C35_NoRequestUntilUserTurn ==
    /\ [][/\ Fallback => ~Requested /\ active' = active
          /\ (FellBack /\ Requested) => UserTurn]_vars
    /\ [][active' = active]_vars

\* C35 amended: the fallback requests no decision and keeps the persona and
\* the position of its on_enter; once a fallback has happened a decision is
\* requested only by a user turn that completes or by on_enter after its
\* direct reply, where the fallback came before or during that reply; the
\* active speaker never changes.
C35_NoRequestByFallback ==
    /\ [][/\ Fallback => ~Requested /\ UNCHANGED <<active, enter_pc, instructions>>
          /\ (FellBack /\ Requested) =>
                \/ UserTurn
                \/ enter_pc = "decide" /\ \E self \in active : EnterDecision(self)]_vars
    /\ [][active' = active]_vars

\* C35 witness: the forced decision of on_enter named nobody; nothing is
\* asked of the second persona, which stays active with its on_enter over.
C35_StuckAfterFallback ==
    /\ FellBack
    /\ tool_result.value = "None"
    /\ active = {Roster[2].id}
    /\ enter_pc = "idle"
    /\ decisions = 0
    /\ history[Len(history)] = Msg("assistant", Roster[2].name, "reply")

----------------------------------------------------------------------------
\* Claims about the avatar tool's publish, under SpecAvatar.

\* C36: an avatar_tool call gives its publish up, returning status error,
\* only after it has called publish_data three times.
C36_AvatarPublishRetried ==
    [][(IsAvatar /\ tool_result'.value.status = "error") =>
          room'.calls = RPC_ATTEMPTS]_vars

----------------------------------------------------------------------------
\* Claims about the end of a research task, under SpecResearch.

\* No publish of the task has raised.
Delivered == research.raised # "rpc"

----------------------------------------------------------------------------
\* Claims about pending notifications, under SpecNotify.

Payloads(tasks) == [i \in DOMAIN tasks |-> tasks[i].payload]

\* C39: a step that queues a notification queues the hot takes as the step
\* leaves them, behind the pending ones, whose payloads stay as they were;
\* a retry changes no payload and a delivery or a giving up only takes one
\* notification away.
C39_PayloadIsSnapshot ==
    [][/\ Len(rpc_tasks') > Len(rpc_tasks) =>
             /\ Payloads(rpc_tasks') = Append(Payloads(rpc_tasks), hot_takes')
             /\ rpc_tasks'[Len(rpc_tasks')].method = "hot_takes_updated"
       /\ Len(rpc_tasks') = Len(rpc_tasks) =>
             /\ Payloads(rpc_tasks') = Payloads(rpc_tasks)
             /\ hot_takes' = hot_takes
       /\ Len(rpc_tasks') < Len(rpc_tasks) =>
             /\ \E i \in DOMAIN rpc_tasks :
                   Payloads(rpc_tasks') = Without(Payloads(rpc_tasks), i)
             /\ hot_takes' = hot_takes]_vars

\* C39 witness: a notification that was tried twice still holds the list of
\* one take it was queued with, while the take has been deleted since.
C39_OldSnapshotPending ==
    /\ Len(rpc_tasks) = 2
    /\ rpc_tasks[1].attempts = 2
    /\ rpc_tasks[1].payload = <<1>>
    /\ hot_takes = <<>>
    /\ rpc_tasks[2].payload = <<>>

----------------------------------------------------------------------------
\* Claims about the Transcript Store, under SpecStore.

Added == history'[Len(history')]

\* C38: a user message in the transcript is labelled "user" and an assistant
\* message with the name of a persona, and the assistant message a step adds
\* is labelled with the name of the persona that is the active speaker when
\* the step is taken.
C38_LabelledByProducer ==
    /\ [](\A i \in DOMAIN history :
              /\ history[i].role = "user" => history[i].speaker = UserName
              /\ history[i].role = "assistant" => history[i].speaker \in RosterNames)
    /\ [][(Len(history') > Len(history) /\ Added.role = "assistant")
              => \E self \in active : Added.speaker = PersonaOf(self).name]_vars

====
